---- MODULE Spec2Model ----
(***************************************************************************)
(* Model of the dictation pipeline of dictate.c: the SegmentQueue ring     *)
(* buffer, the PortAudio callback that produces speech segments, the      *)
(* transcription worker that consumes them, and main's start-up and       *)
(* shutdown sequence.                                                      *)
(*                                                                         *)
(* Segment buffers are identified by the order in which the callback      *)
(* allocates them (1, 2, ...); 0 is the NULL pointer left by memset.       *)
(***************************************************************************)
EXTENDS Integers, Sequences, FiniteSets, TLC

\* ---- bounds of the model ------------------------------------------------
\* number of segment buffers the audio callback allocates in one run
MaxSegs == 7

\* segments the voice-activity engine completes in one run of the callback
\* specification
MaxVadSegs == 3

\* ---- program constants ---------------------------------------------------
MAX_QUEUE_SIZE == 5
SAMPLE_RATE == 16000
VAD_WINDOW_SIZE == 512

VARIABLES
    items,          \* q->items[i].samples, i in 0..MAX_QUEUE_SIZE-1
    head,           \* q->head
    tail,           \* q->tail
    count,          \* q->count
    mutex,          \* owner of q->mutex, or "free"
    woken,          \* waiters of q->cond that a pthread_cond_signal has woken
    g_running,      \* the shutdown flag
    pcW,            \* position of each transcription_worker thread
    segW,           \* the worker's local 'seg' (samples pointer)
    resW,           \* what the worker does with the recognition result
    pcAudio,        \* position of the PortAudio callback thread
    curSeg,         \* the callback's local 'copy'
    nAlloc,         \* number of segment buffers malloc'ed so far
    streamActive,   \* the PortAudio stream is started and not yet stopped
    pcMain,         \* position of main
    freedBy,        \* per buffer: who called free() on it, in order
    readAfterFree,  \* a released buffer was handed to the recognizer
    popped,         \* history: buffers returned by queue_pop, in order
    evicted,        \* history: buffers dropped by an overflowing queue_push
    pushesSincePop, \* history: completed pushes since the last successful pop
    lastKeySeg,     \* history: segment of the most recent injected key event
    recogCallers,   \* history: threads that entered the recognition engine
    shutdownLog,    \* history: teardown steps main has performed, in order
    acquired,       \* history: resources main has acquired, in order
    held,           \* resources acquired and not yet released
    streamW,        \* the worker's offline recognition stream exists
    failedAt,       \* history: the start-up step of main that failed
    lateRecog,      \* history: segments whose recognition call began with
                    \* g_running false
    lateInject,     \* history: segments injected with g_running false
    g_audio_buf_len,\* samples held in g_audio_buf
    vadQ,           \* lengths (seg->n) of the segments the VAD has completed
    cbPhase,        \* "drain" while pa_callback is in its segment loop
    drained,        \* history: the segments pa_callback took from the VAD
    bufFirst,       \* serial number (mod TagMod) of the sample g_audio_buf[0]
    nCopied,        \* serial number (mod TagMod) of the next sample copied in
    cbTrace,        \* history: what the running pa_callback call has done
    nFed,           \* history: number (mod TagMod) of samples fed to the VAD
    oversize,       \* history: a frame of more than VAD_WINDOW_SIZE samples came
    lost,           \* history: samples of a frame were not copied
    result,         \* the worker's 'r': the recognition result and its text
    textPc,         \* position of the worker in the handling of a result
    is_garbage_ret, \* what is_garbage(r->text) returned
    wtext,          \* the worker's local 'text' (r->text past leading space)
    tlen,           \* the worker's local 'tlen'
    cmd_start,      \* the worker's local 'cmd_start'
    text_len,       \* the worker's local 'text_len'
    cmdW,           \* the worker's local 'cmd': index in g_commands, 0 = NULL
    injected,       \* history: typer_type and typer_press calls for this
                    \* result, and mallocs of the worker that returned NULL
    s_keymap,       \* typer.c: the compiled keyboard layout
    typerPc,        \* position of typer_type
    tcps,           \* history: the codepoints the text was encoded from
    tbytes,         \* typer_type's argument 'text'
    tpos,           \* typer_type's 'p', as an index into tbytes
    tmem,           \* the bytes that follow the text's terminator in memory
    events,         \* history: the input events written to the uinput device
    typedLog,       \* history: one record per type_codepoint call
    xPc,            \* XTest build: "done" once type_text has returned
    xevents,        \* XTest build: history of the XTestFakeKeyEvent calls
    s_fd,           \* typer.c: the uinput device, -1 when there is none
    pressArgs,      \* history: the arguments of the typer_press call
    s_ctx,          \* typer.c: the xkb context, "NULL" when there is none
    typerHeld,      \* history: the resources typer.c holds
    typerOps,       \* history: the acquiring and releasing calls of the
                    \* running typer_init or typer_cleanup call
    initRet         \* what the running typer_init call returns

vars == <<items, head, tail, count, mutex, woken, g_running, pcW, segW, resW,
          pcAudio, curSeg, nAlloc, streamActive, pcMain, freedBy,
          readAfterFree, popped, evicted, pushesSincePop, lastKeySeg,
          recogCallers, shutdownLog, acquired, held, streamW, failedAt,
          lateRecog, lateInject, g_audio_buf_len, vadQ, cbPhase, drained, bufFirst, nCopied,
          cbTrace, nFed, oversize, lost, result, textPc,
          is_garbage_ret, wtext, tlen, cmd_start, text_len, cmdW, injected,
          s_keymap, typerPc, tcps, tbytes, tpos, tmem, events, typedLog,
          xPc, xevents, s_fd, pressArgs, s_ctx, typerHeld, typerOps, initRet>>

\* the callback's accumulation buffer and its view of the VAD
audioVars == <<g_audio_buf_len, vadQ, cbPhase, drained, bufFirst, nCopied,
               cbTrace, nFed, oversize, lost>>

\* the worker's handling of one recognition result
textVars == <<result, textPc, is_garbage_ret, wtext, tlen, cmd_start,
              text_len, cmdW, injected>>

\* the XTest build's type_text
xtestVars == <<xPc, xevents>>

\* typer.c
typerVars == <<s_keymap, typerPc, tcps, tbytes, tpos, tmem, events, typedLog,
               xtestVars, s_fd, pressArgs, s_ctx, typerHeld, typerOps,
               initRet>>

\* variables of the detailed callback, result handling and typer
sideVars == <<audioVars, textVars, typerVars>>

\* variables the pipeline's queue, callback and signal steps leave alone
\* what the worker did after the running flag fell
lateVars == <<lateRecog, lateInject>>

auxVars == <<acquired, held, streamW, failedAt, lateVars, sideVars>>

queueVars == <<items, head, tail, count>>
histVars  == <<popped, evicted, pushesSincePop, lastKeySeg, recogCallers>>

\* ---- threads -------------------------------------------------------------
WorkersTwo == {"worker", "worker2"}
\* main creates exactly one transcription_worker thread
Workers == {"worker"}

Slots  == 0 .. (MAX_QUEUE_SIZE - 1)
SegIds == 1 .. MaxSegs

\* what a recognition result leads the worker to inject
Results == {"none", "rejected", "blank", "text", "cmd", "textcmd"}

\* ---- helpers of the ring buffer ----------------------------------------
\* as NextIdx, but an index advances by two slots
NextIdxSkipping(i) == (i + 2) % MAX_QUEUE_SIZE

NextIdx(i) == (i + 1) % MAX_QUEUE_SIZE

QueueFullOffByOne(c) == c > MAX_QUEUE_SIZE
\* queue_push: if (q->count == MAX_QUEUE_SIZE)
QueueFull(c) == c = MAX_QUEUE_SIZE

PopShouldWaitWhileRunning(c, run) == run
PopShouldWaitIgnoringFlag(c, run) == c = 0
\* queue_pop: while (q->count == 0 && *running)
PopShouldWait(c, run) == c = 0 /\ run

PopSlotTail(h, t) == t
\* queue_pop: *out = q->items[q->head]
PopSlot(h, t) == h

\* the queued buffers, oldest first: slots head .. head+count-1 (mod 5)
QueueSeq == [i \in 1 .. count |-> items[(head + i - 1) % MAX_QUEUE_SIZE]]

\* free(p): free(NULL) does nothing
Free(fb, id, who) == IF id = 0 THEN fb ELSE [fb EXCEPT ![id] = Append(@, who)]

\* pthread_cond_signal: wakes one thread blocked on the condition, if any
CondSignal(wk) ==
    LET ws == {w \in Workers : pcW[w] = "pop_wait" /\ w \notin wk}
    IN  IF ws = {} THEN {wk} ELSE {wk \cup {w} : w \in ws}

\* the process has neither returned from main nor been torn down
Alive == pcMain \notin {"aborted", "exit"}

AllWorkersExited == \A w \in Workers : pcW[w] = "exited"

\* positions of main before the signal handlers are installed
StartupStates ==
    {"start", "typer_init", "create_recognizer", "create_vad", "init",
     "pa_start"}

\* the resource a teardown step of main releases
ResourceOf(step) ==
    CASE step = "typer_cleanup" -> "typer"
      [] step = "vad_destroy" -> "vad"
      [] step = "recognizer_destroy" -> "recognizer"

\* the queue after queue_init, nothing produced or consumed yet
PipelineFresh ==
    /\ items = [i \in Slots |-> 0]
    /\ head = 0
    /\ tail = 0
    /\ count = 0
    /\ mutex = "free"
    /\ woken = {}
    /\ g_running = TRUE
    /\ segW = [w \in Workers |-> 0]
    /\ resW = [w \in Workers |-> "none"]
    /\ pcAudio = "idle"
    /\ curSeg = 0
    /\ nAlloc = 0
    /\ freedBy = [s \in SegIds |-> <<>>]
    /\ readAfterFree = FALSE
    /\ popped = <<>>
    /\ evicted = {}
    /\ pushesSincePop = 0
    /\ lastKeySeg = 0
    /\ recogCallers = {}
    /\ shutdownLog = <<>>
    /\ streamW = [w \in Workers |-> FALSE]
    /\ failedAt = "none"
    /\ lateRecog = {}
    /\ lateInject = {}

\* main is entered
PipelineStart ==
    /\ PipelineFresh
    /\ pcW = [w \in Workers |-> "unstarted"]
    /\ streamActive = FALSE
    /\ pcMain = "start"
    /\ acquired = <<>>
    /\ held = {}

\* start-up is over: main sleeps in its loop, the worker thread and the audio
\* stream are started
PipelineListening ==
    /\ PipelineFresh
    /\ pcW = [w \in Workers |-> "top"]
    /\ streamActive = TRUE
    /\ pcMain = "running"
    /\ acquired = <<"typer", "recognizer", "vad">>
    /\ held = {"typer", "recognizer", "vad"}

\* g_audio_buf_len = 0, and the VAD has seen nothing
AudioIdle ==
    /\ g_audio_buf_len = 0
    /\ vadQ = <<>>
    /\ cbPhase = "none"
    /\ drained = <<>>
    /\ bufFirst = 0
    /\ nCopied = 0
    /\ cbTrace = <<>>
    /\ nFed = 0
    /\ oversize = FALSE
    /\ lost = FALSE

\* the worker has no recognition result in hand
TextIdle ==
    /\ result = [ptr |-> "null", text |-> <<>>]
    /\ textPc = "result"
    /\ is_garbage_ret = TRUE
    /\ wtext = <<>>
    /\ tlen = 0
    /\ cmd_start = 0
    /\ text_len = 0
    /\ cmdW = 0
    /\ injected = <<>>

\* s_keymap = NULL: a layout without keys
NoKeymap == [min_kc |-> 0, max_kc |-> -1, mods |-> {}, keys |-> <<>>]

\* no keymap is compiled and typer_type is not running
TyperIdle ==
    /\ s_keymap = NoKeymap
    /\ s_ctx = "NULL"
    /\ typerHeld = {}
    /\ typerOps = <<>>
    /\ initRet = 0
    /\ typerPc = "idle"
    /\ tcps = <<>>
    /\ tbytes = <<>>
    /\ tpos = 1
    /\ tmem = <<0, 0, 0>>
    /\ events = <<>>
    /\ typedLog = <<>>
    /\ xPc = "idle"
    /\ xevents = <<>>
    /\ s_fd = -1
    /\ pressArgs = <<>>

Init ==
    /\ PipelineStart
    /\ AudioIdle
    /\ TextIdle
    /\ TyperIdle

\* ---- the audio producer: pa_callback and queue_push ---------------------

\* The voice-activity engine hands the callback a completed segment of at
\* least VAD_MIN_SPEECH and malloc succeeds: the callback owns 'copy'.
pa_callback ==
    /\ Alive /\ streamActive
    /\ pcAudio = "idle"
    /\ nAlloc < MaxSegs
    /\ nAlloc' = nAlloc + 1
    /\ curSeg' = nAlloc + 1
    /\ pcAudio' = "push_lock"
    /\ UNCHANGED <<queueVars, mutex, woken, g_running, pcW, segW, resW,
                   streamActive, pcMain, freedBy, readAfterFree, histVars,
                   shutdownLog, auxVars>>

\* queue_push: pthread_mutex_lock
queue_push_lock ==
    /\ Alive
    /\ pcAudio = "push_lock"
    /\ mutex = "free"
    /\ mutex' = "audio"
    /\ pcAudio' = "push_check"
    /\ UNCHANGED <<queueVars, woken, g_running, pcW, segW, resW, curSeg,
                   nAlloc, streamActive, pcMain, freedBy, readAfterFree,
                   histVars, shutdownLog, auxVars>>

\* a queue_push that makes room by dropping the newest entry
queue_push_evict_newest ==
    /\ Alive
    /\ pcAudio = "push_check"
    /\ IF QueueFull(count)
       THEN LET last == (tail + MAX_QUEUE_SIZE - 1) % MAX_QUEUE_SIZE
            IN  /\ freedBy' = Free(freedBy, items[last], "evict")
                /\ evicted' = evicted \cup {items[last]}
                /\ tail' = last
                /\ count' = count - 1
       ELSE UNCHANGED <<freedBy, evicted, tail, count>>
    /\ pcAudio' = "push_store"
    /\ UNCHANGED <<items, head, mutex, woken, g_running, pcW, segW, resW,
                   curSeg, nAlloc, streamActive, pcMain, readAfterFree,
                   popped, pushesSincePop, lastKeySeg, recogCallers,
                   shutdownLog, auxVars>>

\* a queue_push that waits for room instead of dropping
queue_push_evict_blocking ==
    /\ Alive
    /\ pcAudio = "push_check"
    /\ ~QueueFull(count)
    /\ pcAudio' = "push_store"
    /\ UNCHANGED <<queueVars, mutex, woken, g_running, pcW, segW, resW,
                   curSeg, nAlloc, streamActive, pcMain, freedBy,
                   readAfterFree, histVars, shutdownLog, auxVars>>

\* queue_push: the drop-oldest branch
queue_push_evict ==
    /\ Alive
    /\ pcAudio = "push_check"
    /\ IF QueueFull(count)
       THEN /\ freedBy' = Free(freedBy, items[head], "evict")
            /\ evicted' = evicted \cup {items[head]}
            /\ head' = NextIdx(head)
            /\ count' = count - 1
       ELSE UNCHANGED <<freedBy, evicted, head, count>>
    /\ pcAudio' = "push_store"
    /\ UNCHANGED <<items, tail, mutex, woken, g_running, pcW, segW, resW,
                   curSeg, nAlloc, streamActive, pcMain, readAfterFree,
                   popped, pushesSincePop, lastKeySeg, recogCallers,
                   shutdownLog, auxVars>>

\* queue_push: store at tail, signal the condition, unlock
queue_push_store ==
    /\ Alive
    /\ pcAudio = "push_store"
    /\ items' = [items EXCEPT ![tail] = curSeg]
    /\ tail' = NextIdx(tail)
    /\ count' = count + 1
    /\ woken' \in CondSignal(woken)
    /\ mutex' = "free"
    /\ pcAudio' = "idle"
    /\ pushesSincePop' = pushesSincePop + 1
    /\ UNCHANGED <<head, g_running, pcW, segW, resW, curSeg, nAlloc,
                   streamActive, pcMain, freedBy, readAfterFree, popped,
                   evicted, lastKeySeg, recogCallers, shutdownLog, auxVars>>

\* ---- the worker's handling of a recognition result ---------------------------
\* A C string is the sequence of its bytes (0 .. 255, no NUL); an index of the
\* C code is the number of bytes before it.

\* bound: length of the exhaustively enumerated recognition results
MaxTextLen == 3

\* <ctype.h> in the "C" locale (the program never calls setlocale)
isspace(c) == c \in {9, 10, 11, 12, 13, 32}
isalnum(c) == c \in (48 .. 57) \cup (65 .. 90) \cup (97 .. 122)
tolower(c) == IF c \in 65 .. 90 THEN c + 32 ELSE c

\* the phrases of g_commands
press_enter  == <<112, 114, 101, 115, 115, 32, 101, 110, 116, 101, 114>>
press_tab    == <<112, 114, 101, 115, 115, 32, 116, 97, 98>>
interrupt_it == <<105, 110, 116, 101, 114, 114, 117, 112, 116, 32, 105, 116>>
cancel_it    == <<99, 97, 110, 99, 101, 108, 32, 105, 116>>

g_commands ==
    << [phrase |-> press_enter,  keycode |-> "KEY_ENTER", ctrl |-> 0],
       [phrase |-> press_tab,    keycode |-> "KEY_TAB",   ctrl |-> 0],
       [phrase |-> interrupt_it, keycode |-> "KEY_C",     ctrl |-> 1],
       [phrase |-> cancel_it,    keycode |-> "KEY_C",     ctrl |-> 1] >>

\* while (*text && isspace(*text)) text++
SkipLeading(t) ==
    LET keep == {i \in 1 .. Len(t) : ~isspace(t[i])}
    IN  IF keep = {} THEN <<>>
        ELSE SubSeq(t, CHOOSE i \in keep : \A j \in keep : i <= j, Len(t))

\* the values of an unsigned char
Bytes == 0 .. 255

\* while (len > 0 && text[len - 1] is one of strip) len--
TrimmedLen(t, len, strip) ==
    LET keep == {i \in 1 .. len : t[i] \notin strip}
    IN  IF keep = {} THEN 0
        ELSE CHOOSE i \in keep : \A j \in keep : j <= i

AlnumOnly(c) == isalnum(c)
\* isalnum(c) || c >= 0xC0
AlnumOrLead(c) == isalnum(c) \/ c >= 192

\* is_garbage, alnum being the bytes that set has_alnum
GarbageWith(t, alnum) ==
    LET text == SkipLeading(t)
        len  == TrimmedLen(text, Len(text), {c \in Bytes : isspace(c)})
        has_alnum == \E i \in 1 .. len : text[i] \in alnum
        unique == Cardinality({text[i] : i \in 1 .. len})
    IN  \/ text = <<>>
        \/ len = 0
        \/ unique <= 2 /\ ~has_alnum
        \/ len < 3 /\ ~has_alnum

\* is_garbage of dictate.c (uinput build), for a non-NULL text
is_garbage(t) == GarbageWith(t, {c \in Bytes : AlnumOrLead(c)})

\* is_garbage of the X11 build, which tests isalnum(c) alone
is_garbage_x11(t) == GarbageWith(t, {c \in Bytes : isalnum(c)})

WordBoundaryAny(text, at) == TRUE
\* if (suffix > text && suffix[-1] != ' ') continue;
WordBoundary(text, at) == at > 0 => text[at] = 32

\* the body of match_trailing_command's loop for one command
PhraseMatches(text, len, phrase) ==
    LET plen == Len(phrase)
    IN  /\ plen <= len
        /\ \A i \in 1 .. plen : tolower(text[len - plen + i]) = phrase[i]
        /\ WordBoundary(text, len - plen)

\* the first command of the table that matches; cmd = 0 is the NULL return,
\* which leaves *cmd_start as the caller set it
match_trailing_command(text, len, cmd_start_in) ==
    LET hits == {k \in 1 .. Len(g_commands) :
                    PhraseMatches(text, len, g_commands[k].phrase)}
    IN  IF hits = {} THEN [cmd |-> 0, cmd_start |-> cmd_start_in]
        ELSE LET k == CHOOSE k \in hits : \A j \in hits : k <= j
             IN  [cmd |-> k, cmd_start |-> len - Len(g_commands[k].phrase)]

IsTrailingSpace(c) == isspace(c)
\* isspace(c) || c == '.' || c == ',' || c == '!' || c == '?'
IsTrailingJunk(c) == isspace(c) \/ c \in {46, 44, 33, 63}

IsBlankNever(c) == FALSE
\* text[text_len - 1] == ' '
IsBlank(c) == c = 32

\* the bytes the worker trims from the end of the text, and those it strips
\* before a command
TrailingJunk == {c \in Bytes : IsTrailingJunk(c)}
Blanks == {c \in Bytes : IsBlank(c)}

\* ---- recognition results fed to the worker ----------------------------------

\* '\n', ' ', '!', ',', '.', 'o', and the two bytes of U+00BF
TextBytes == {10, 32, 33, 44, 46, 111, 194, 191}

RECURSIVE TextsUpTo(_)
TextsUpTo(n) ==
    IF n = 0 THEN {<<>>}
    ELSE LET shorter == TextsUpTo(n - 1)
         IN  shorter \cup {Append(t, c) : t \in shorter, c \in TextBytes}

\* "ok", "xyz", "...", "hello world.", " Hello, world!? ", "press enter now"
ExampleTexts ==
    { <<111, 107>>, <<120, 121, 122>>, <<46, 46, 46>>,
      <<104, 101, 108, 108, 111, 32, 119, 111, 114, 108, 100, 46>>,
      <<32, 72, 101, 108, 108, 111, 44, 32, 119, 111, 114, 108, 100, 33, 63,
        32>>,
      <<112, 114, 101, 115, 115, 32, 101, 110, 116, 101, 114, 32, 110, 111,
        119>> }

\* "", "please ", "please  ", "x", "go. "
CommandPrefixes ==
    { <<>>, <<112, 108, 101, 97, 115, 101, 32>>,
      <<112, 108, 101, 97, 115, 101, 32, 32>>, <<120>>, <<103, 111, 46, 32>> }

\* the phrases as the engine may spell them: "press enter", "Press Enter",
\* "PRESS TAB", "press tab", "interrupt it", "Cancel it", "cancel it",
\* and "press ente", which is no phrase
SpokenPhrases ==
    { press_enter, <<80, 114, 101, 115, 115, 32, 69, 110, 116, 101, 114>>,
      <<80, 82, 69, 83, 83, 32, 84, 65, 66>>, press_tab, interrupt_it,
      <<67, 97, 110, 99, 101, 108, 32, 105, 116>>, cancel_it,
      <<112, 114, 101, 115, 115, 32, 101, 110, 116, 101>> }

\* "", ".", " ", "!? "
CommandSuffixes == { <<>>, <<46>>, <<32>>, <<33, 63, 32>> }

CommandTexts ==
    {p \o c \o x : p \in CommandPrefixes, c \in SpokenPhrases,
                   x \in CommandSuffixes}

Texts == TextsUpTo(MaxTextLen) \cup ExampleTexts \cup CommandTexts

\* what SherpaOnnxGetOfflineStreamResult may return: NULL, a result whose
\* text is NULL, or a result with a text
EngineResults ==
    {[ptr |-> "null", text |-> <<>>], [ptr |-> "nulltext", text |-> <<>>]}
        \cup {[ptr |-> "ok", text |-> t] : t \in Texts}

\* results the engine hands the worker in the pipeline: NULL, a NULL text,
\* "", "...", ".,!", "ok", "cancel it", "go. press enter"
SampleResults ==
    { [ptr |-> "null", text |-> <<>>], [ptr |-> "nulltext", text |-> <<>>],
      [ptr |-> "ok", text |-> <<>>],
      [ptr |-> "ok", text |-> <<46, 46, 46>>],
      [ptr |-> "ok", text |-> <<46, 44, 33>>],
      [ptr |-> "ok", text |-> <<111, 107>>],
      [ptr |-> "ok", text |-> cancel_it],
      [ptr |-> "ok", text |-> <<103, 111, 46, 32>> \o press_enter] }

\* what the worker does with a result: "rejected" when r or r->text is NULL
\* or is_garbage holds (an empty text is garbage), otherwise by what is
\* left to inject: "blank" (nothing), "text", "cmd" or "textcmd"
ResultKind(r) ==
    IF r.ptr # "ok" \/ is_garbage(r.text) THEN "rejected"
    ELSE LET text == SkipLeading(r.text)
             n    == TrimmedLen(text, Len(text), TrailingJunk)
             m    == match_trailing_command(text, n, n)
             tl   == TrimmedLen(text, m.cmd_start, Blanks)
         IN  IF tl > 0 /\ m.cmd # 0 THEN "textcmd"
             ELSE IF tl > 0 THEN "text"
             ELSE IF m.cmd # 0 THEN "cmd"
             ELSE "blank"

\* what the worker does with each of the sample results
SampleKinds == {ResultKind(r) : r \in SampleResults}

\* ---- the consumer: transcription_worker and queue_pop -------------------

\* as worker_top, but the loop goes on while the queue holds a segment
worker_top_until_empty(w) ==
    /\ Alive
    /\ pcW[w] = "top"
    /\ pcW' = [pcW EXCEPT ![w] = IF g_running \/ count > 0 THEN "pop_lock"
                                 ELSE "exited"]
    /\ UNCHANGED <<queueVars, mutex, woken, g_running, segW, resW, pcAudio,
                   curSeg, nAlloc, streamActive, pcMain, freedBy,
                   readAfterFree, histVars, shutdownLog, auxVars>>

\* transcription_worker: while (g_running)
worker_top(w) ==
    /\ Alive
    /\ pcW[w] = "top"
    /\ pcW' = [pcW EXCEPT ![w] = IF g_running THEN "pop_lock" ELSE "exited"]
    /\ UNCHANGED <<queueVars, mutex, woken, g_running, segW, resW, pcAudio,
                   curSeg, nAlloc, streamActive, pcMain, freedBy,
                   readAfterFree, histVars, shutdownLog, auxVars>>

\* queue_pop: pthread_mutex_lock, and the re-acquisition of the mutex when
\* pthread_cond_timedwait returns
queue_pop_lock(w) ==
    /\ Alive
    /\ pcW[w] \in {"pop_lock", "pop_relock"}
    /\ mutex = "free"
    /\ mutex' = w
    /\ pcW' = [pcW EXCEPT ![w] = "pop_check"]
    /\ UNCHANGED <<queueVars, woken, g_running, segW, resW, pcAudio, curSeg,
                   nAlloc, streamActive, pcMain, freedBy, readAfterFree,
                   histVars, shutdownLog, auxVars>>

\* queue_pop: the loop test with the mutex held, and what follows it: enter
\* pthread_cond_timedwait (which releases the mutex), return 0, or take the
\* head and return 1
queue_pop_check(w) ==
    /\ Alive
    /\ pcW[w] = "pop_check"
    /\ mutex' = "free"
    /\ IF PopShouldWait(count, g_running)
       THEN /\ pcW' = [pcW EXCEPT ![w] = "pop_wait"]
            /\ UNCHANGED <<queueVars, segW, popped, pushesSincePop>>
       ELSE IF count = 0
       THEN /\ pcW' = [pcW EXCEPT ![w] = "pop_ret0"]
            /\ UNCHANGED <<queueVars, segW, popped, pushesSincePop>>
       ELSE /\ segW' = [segW EXCEPT ![w] = items[PopSlot(head, tail)]]
            /\ head' = NextIdx(head)
            /\ count' = count - 1
            /\ popped' = Append(popped, items[PopSlot(head, tail)])
            /\ pushesSincePop' = 0
            /\ pcW' = [pcW EXCEPT ![w] = "popped"]
            /\ UNCHANGED <<items, tail>>
    /\ UNCHANGED <<woken, g_running, resW, pcAudio, curSeg, nAlloc,
                   streamActive, pcMain, freedBy, readAfterFree, evicted,
                   lastKeySeg, recogCallers, shutdownLog, auxVars>>

\* transcription_worker: if (!queue_pop(...)) continue;
worker_continue(w) ==
    /\ Alive
    /\ pcW[w] = "pop_ret0"
    /\ pcW' = [pcW EXCEPT ![w] = "top"]
    /\ UNCHANGED <<queueVars, mutex, woken, g_running, segW, resW, pcAudio,
                   curSeg, nAlloc, streamActive, pcMain, freedBy,
                   readAfterFree, histVars, shutdownLog, auxVars>>

\* pthread_cond_timedwait returns because the condition was signalled
queue_pop_wake(w) ==
    /\ Alive
    /\ pcW[w] = "pop_wait"
    /\ w \in woken
    /\ woken' = woken \ {w}
    /\ pcW' = [pcW EXCEPT ![w] = "pop_relock"]
    /\ UNCHANGED <<queueVars, mutex, g_running, segW, resW, pcAudio, curSeg,
                   nAlloc, streamActive, pcMain, freedBy, readAfterFree,
                   histVars, shutdownLog, auxVars>>

\* a queue_pop that gives up and returns 0 when the wait times out
queue_pop_timeout_returns(w) ==
    /\ Alive
    /\ pcW[w] = "pop_wait"
    /\ w \notin woken
    /\ pcW' = [pcW EXCEPT ![w] = "pop_ret0"]
    /\ UNCHANGED <<queueVars, mutex, woken, g_running, segW, resW, pcAudio,
                   curSeg, nAlloc, streamActive, pcMain, freedBy,
                   readAfterFree, histVars, shutdownLog, auxVars>>

\* a queue_pop that waits with pthread_cond_wait: the wait never times out
queue_pop_no_timeout(w) ==
    /\ pcW[w] = "pop_wait"
    /\ FALSE
    /\ UNCHANGED vars

\* pthread_cond_timedwait returns because the 500 ms have passed
queue_pop_timeout(w) ==
    /\ Alive
    /\ pcW[w] = "pop_wait"
    /\ w \notin woken
    /\ pcW' = [pcW EXCEPT ![w] = "pop_relock"]
    /\ UNCHANGED <<queueVars, mutex, woken, g_running, segW, resW, pcAudio,
                   curSeg, nAlloc, streamActive, pcMain, freedBy,
                   readAfterFree, histVars, shutdownLog, auxVars>>

\* the worker hands seg.samples to the recognition engine
recognize_begin(w) ==
    /\ Alive
    /\ pcW[w] = "popped"
    /\ pcW' = [pcW EXCEPT ![w] = "recog"]
    /\ recogCallers' = recogCallers \cup {w}
    /\ lateRecog' = IF g_running THEN lateRecog ELSE lateRecog \cup {segW[w]}
    /\ streamW' = [streamW EXCEPT ![w] = TRUE]
    /\ readAfterFree' = (readAfterFree \/
                           (segW[w] # 0 /\ freedBy[segW[w]] # <<>>))
    /\ UNCHANGED <<queueVars, mutex, woken, g_running, segW, resW, pcAudio,
                   curSeg, nAlloc, streamActive, pcMain, freedBy, popped,
                   evicted, pushesSincePop, lastKeySeg, shutdownLog, acquired, held, failedAt, lateInject, sideVars>>

\* as recognize_return, but a rejected result sends the worker back to the
\* top of its loop without the release
recognize_return_leaky(w) ==
    /\ Alive
    /\ pcW[w] = "recog"
    /\ \E kind \in SampleKinds :
         /\ resW' = [resW EXCEPT ![w] = kind]
         /\ pcW' = [pcW EXCEPT ![w] =
                      IF kind = "rejected" THEN "top"
                      ELSE IF kind = "blank" THEN "release"
                      ELSE IF kind = "cmd" THEN "press" ELSE "type"]
    /\ UNCHANGED <<queueVars, mutex, woken, g_running, segW, pcAudio, curSeg,
                   nAlloc, streamActive, pcMain, freedBy, readAfterFree,
                   histVars, shutdownLog, auxVars>>

\* the recognition call returns and the worker decides what to inject: a
\* rejected result or one with nothing left goes straight to the release
recognize_return(w) ==
    /\ Alive
    /\ pcW[w] = "recog"
    /\ \E kind \in SampleKinds :
         /\ resW' = [resW EXCEPT ![w] = kind]
         /\ pcW' = [pcW EXCEPT ![w] =
                      IF kind \in {"rejected", "blank"} THEN "release"
                      ELSE IF kind = "cmd" THEN "press" ELSE "type"]
    /\ UNCHANGED <<queueVars, mutex, woken, g_running, segW, pcAudio, curSeg,
                   nAlloc, streamActive, pcMain, freedBy, readAfterFree,
                   histVars, shutdownLog, auxVars>>

\* buf = malloc(text_len + 2); if (buf) typer_type(buf)
inject_text(w) ==
    /\ Alive
    /\ pcW[w] = "type"
    /\ \E buf_ok \in BOOLEAN :
         /\ lastKeySeg' = IF buf_ok THEN segW[w] ELSE lastKeySeg
         /\ lateInject' = IF buf_ok /\ ~g_running
                          THEN lateInject \cup {segW[w]} ELSE lateInject
    /\ pcW' = [pcW EXCEPT ![w] =
                 IF resW[w] = "textcmd" THEN "press" ELSE "release"]
    /\ UNCHANGED <<queueVars, mutex, woken, g_running, segW, resW, pcAudio,
                   curSeg, nAlloc, streamActive, pcMain, freedBy,
                   readAfterFree, popped, evicted, pushesSincePop,
                   recogCallers, shutdownLog, acquired, held,
                   streamW, failedAt, lateRecog, sideVars>>

\* typer_press(cmd->keycode, cmd->ctrl)
inject_key(w) ==
    /\ Alive
    /\ pcW[w] = "press"
    /\ lastKeySeg' = segW[w]
    /\ lateInject' = IF g_running THEN lateInject
                     ELSE lateInject \cup {segW[w]}
    /\ pcW' = [pcW EXCEPT ![w] = "release"]
    /\ UNCHANGED <<queueVars, mutex, woken, g_running, segW, resW, pcAudio,
                   curSeg, nAlloc, streamActive, pcMain, freedBy,
                   readAfterFree, popped, evicted, pushesSincePop,
                   recogCallers, shutdownLog, acquired, held,
                   streamW, failedAt, lateRecog, sideVars>>

\* SherpaOnnxDestroyOfflineStream(stream), free(seg.samples), back to the top
\* of the loop
release_segment(w) ==
    /\ Alive
    /\ pcW[w] = "release"
    /\ freedBy' = Free(freedBy, segW[w], "worker")
    /\ streamW' = [streamW EXCEPT ![w] = FALSE]
    /\ resW' = [resW EXCEPT ![w] = "none"]
    /\ pcW' = [pcW EXCEPT ![w] = "top"]
    /\ UNCHANGED <<queueVars, mutex, woken, g_running, segW, pcAudio, curSeg,
                   nAlloc, streamActive, pcMain, readAfterFree, histVars,
                   shutdownLog, acquired, held, failedAt, lateVars, sideVars>>

\* ---- signals ----------------------------------------------------------------

\* on_signal: SIGINT or SIGTERM once main has installed the handler
on_signal ==
    /\ Alive
    /\ pcMain \notin StartupStates
    /\ g_running
    /\ g_running' = FALSE
    /\ UNCHANGED <<queueVars, mutex, woken, pcW, segW, resW, pcAudio, curSeg,
                   nAlloc, streamActive, pcMain, freedBy, readAfterFree,
                   histVars, shutdownLog, auxVars>>

\* ---- main ---------------------------------------------------------------

DestroyAllSlots == MAX_QUEUE_SIZE
\* queue_destroy: for (int i = 0; i < q->count; i++)
DestroyCount == count

\* queue_destroy: free the buffers of the slots head, head+1, ...
RECURSIVE FreeQueued(_, _, _)
FreeQueued(fb, i, n) ==
    IF i >= n THEN fb
    ELSE FreeQueued(Free(fb, items[(head + i) % MAX_QUEUE_SIZE], "destroy"),
                    i + 1, n)

\* access(encoder, F_OK), access(vad_model, F_OK): return 1 when an asset is
\* missing
main_check_assets ==
    /\ pcMain = "start"
    /\ \E ok \in BOOLEAN :
         /\ pcMain' = IF ok THEN "typer_init" ELSE "aborted"
         /\ failedAt' = IF ok THEN failedAt ELSE pcMain
    /\ UNCHANGED <<queueVars, mutex, woken, g_running, pcW, segW, resW,
                   pcAudio, curSeg, nAlloc, streamActive, freedBy,
                   readAfterFree, histVars, shutdownLog, acquired, held,
                   streamW, lateVars, sideVars>>

\* as main_typer_init, but the return value of typer_init is not looked at
main_typer_init_unchecked ==
    /\ pcMain = "typer_init"
    /\ \E ok \in BOOLEAN :
         IF ok THEN /\ pcMain' = "create_recognizer"
                    /\ UNCHANGED failedAt
                    /\ acquired' = Append(acquired, "typer")
                    /\ held' = held \cup {"typer"}
               ELSE /\ pcMain' = "create_recognizer"
                    /\ failedAt' = pcMain
                    /\ UNCHANGED <<acquired, held>>
    /\ UNCHANGED <<queueVars, mutex, woken, g_running, pcW, segW, resW,
                   pcAudio, curSeg, nAlloc, streamActive, freedBy,
                   readAfterFree, histVars, shutdownLog, streamW, lateVars, sideVars>>

\* if (typer_init() != 0) return 1
main_typer_init ==
    /\ pcMain = "typer_init"
    /\ \E ok \in BOOLEAN :
         IF ok THEN /\ pcMain' = "create_recognizer"
                    /\ UNCHANGED failedAt
                    /\ acquired' = Append(acquired, "typer")
                    /\ held' = held \cup {"typer"}
               ELSE /\ pcMain' = "aborted"
                    /\ failedAt' = pcMain
                    /\ UNCHANGED <<acquired, held>>
    /\ UNCHANGED <<queueVars, mutex, woken, g_running, pcW, segW, resW,
                   pcAudio, curSeg, nAlloc, streamActive, freedBy,
                   readAfterFree, histVars, shutdownLog, streamW, lateVars, sideVars>>

\* g_recognizer = SherpaOnnxCreateOfflineRecognizer(&config); return 1 when
\* it is NULL
main_create_recognizer ==
    /\ pcMain = "create_recognizer"
    /\ \E ok \in BOOLEAN :
         IF ok THEN /\ pcMain' = "create_vad"
                    /\ UNCHANGED failedAt
                    /\ acquired' = Append(acquired, "recognizer")
                    /\ held' = held \cup {"recognizer"}
               ELSE /\ pcMain' = "aborted"
                    /\ failedAt' = pcMain
                    /\ UNCHANGED <<acquired, held>>
    /\ UNCHANGED <<queueVars, mutex, woken, g_running, pcW, segW, resW,
                   pcAudio, curSeg, nAlloc, streamActive, freedBy,
                   readAfterFree, histVars, shutdownLog, streamW, lateVars, sideVars>>

\* g_vad = SherpaOnnxCreateVoiceActivityDetector(...); when it is NULL the
\* recognizer is destroyed and main returns 1
main_create_vad ==
    /\ pcMain = "create_vad"
    /\ \E ok \in BOOLEAN :
         IF ok THEN /\ pcMain' = "init"
                    /\ acquired' = Append(acquired, "vad")
                    /\ held' = held \cup {"vad"}
                    /\ UNCHANGED failedAt
               ELSE /\ pcMain' = "aborted"
                    /\ failedAt' = pcMain
                    /\ held' = held \ {"recognizer"}
                    /\ UNCHANGED acquired
    /\ UNCHANGED <<queueVars, mutex, woken, g_running, pcW, segW, resW,
                   pcAudio, curSeg, nAlloc, streamActive, freedBy,
                   readAfterFree, histVars, shutdownLog, streamW, lateVars, sideVars>>

\* queue_init and pthread_create
main_spawn ==
    /\ pcMain = "init"
    /\ pcMain' = "pa_start"
    /\ pcW' = [w \in Workers |-> "top"]
    /\ UNCHANGED <<queueVars, mutex, woken, g_running, segW, resW, pcAudio,
                   curSeg, nAlloc, streamActive, freedBy, readAfterFree,
                   histVars, shutdownLog, auxVars>>

\* Pa_Initialize, Pa_OpenDefaultStream, Pa_StartStream succeed; the signal
\* handlers are installed
main_pa_start ==
    /\ pcMain = "pa_start"
    /\ pcMain' = "running"
    /\ streamActive' = TRUE
    /\ UNCHANGED <<queueVars, mutex, woken, g_running, pcW, segW, resW,
                   pcAudio, curSeg, nAlloc, freedBy, readAfterFree, histVars,
                   shutdownLog, auxVars>>

\* one of the PortAudio calls fails: main returns 1 and the process ends
main_pa_fail ==
    /\ pcMain = "pa_start"
    /\ pcMain' = "aborted"
    /\ failedAt' = pcMain
    /\ UNCHANGED <<queueVars, mutex, woken, g_running, pcW, segW, resW,
                   pcAudio, curSeg, nAlloc, streamActive, freedBy,
                   readAfterFree, histVars, shutdownLog, acquired, held,
                   streamW, lateVars, sideVars>>

\* while (g_running) Pa_Sleep(100) ends
main_loop_exit ==
    /\ pcMain = "running"
    /\ ~g_running
    /\ pcMain' = "stop_stream"
    /\ UNCHANGED <<queueVars, mutex, woken, g_running, pcW, segW, resW,
                   pcAudio, curSeg, nAlloc, streamActive, freedBy,
                   readAfterFree, histVars, shutdownLog, auxVars>>

\* Pa_StopStream, Pa_CloseStream, Pa_Terminate: returns once no callback is
\* running, and none is started afterwards
main_stop_stream ==
    /\ pcMain = "stop_stream"
    /\ pcAudio = "idle"
    /\ streamActive' = FALSE
    /\ shutdownLog' = Append(shutdownLog, "stop_audio")
    /\ pcMain' = "wake_lock"
    /\ UNCHANGED <<queueVars, mutex, woken, g_running, pcW, segW, resW,
                   pcAudio, curSeg, nAlloc, freedBy, readAfterFree, histVars, auxVars>>

\* pthread_mutex_lock(&g_queue.mutex)
main_wake_lock ==
    /\ pcMain = "wake_lock"
    /\ mutex = "free"
    /\ mutex' = "main"
    /\ pcMain' = "wake_signal"
    /\ UNCHANGED <<queueVars, woken, g_running, pcW, segW, resW, pcAudio,
                   curSeg, nAlloc, streamActive, freedBy, readAfterFree,
                   histVars, shutdownLog, auxVars>>

\* pthread_cond_signal, pthread_mutex_unlock
main_wake_signal ==
    /\ pcMain = "wake_signal"
    /\ woken' \in CondSignal(woken)
    /\ mutex' = "free"
    /\ shutdownLog' = Append(shutdownLog, "signal")
    /\ pcMain' = "join"
    /\ UNCHANGED <<queueVars, g_running, pcW, segW, resW, pcAudio, curSeg,
                   nAlloc, streamActive, freedBy, readAfterFree, histVars, auxVars>>

JoinWithoutWaiting == TRUE
\* pthread_join returns when the worker thread has returned
JoinReady == AllWorkersExited

\* pthread_join(worker, NULL)
main_join ==
    /\ pcMain = "join"
    /\ JoinReady
    /\ shutdownLog' = Append(shutdownLog, "join")
    /\ pcMain' = "queue_destroy"
    /\ UNCHANGED <<queueVars, mutex, woken, g_running, pcW, segW, resW,
                   pcAudio, curSeg, nAlloc, streamActive, freedBy,
                   readAfterFree, histVars, auxVars>>

\* queue_destroy(&g_queue)
main_queue_destroy ==
    /\ pcMain = "queue_destroy"
    /\ freedBy' = FreeQueued(freedBy, 0, DestroyCount)
    /\ shutdownLog' = Append(shutdownLog, "queue_destroy")
    /\ pcMain' = "typer_cleanup"
    /\ UNCHANGED <<queueVars, mutex, woken, g_running, pcW, segW, resW,
                   pcAudio, curSeg, nAlloc, streamActive, readAfterFree,
                   histVars, auxVars>>

\* typer_cleanup, SherpaOnnxDestroyVoiceActivityDetector,
\* SherpaOnnxDestroyOfflineRecognizer, return 0: one release per step
main_release ==
    /\ pcMain \in {"typer_cleanup", "vad_destroy", "recognizer_destroy"}
    /\ shutdownLog' = Append(shutdownLog, pcMain)
    /\ held' = held \ {ResourceOf(pcMain)}
    /\ pcMain' = CASE pcMain = "typer_cleanup" -> "vad_destroy"
                   [] pcMain = "vad_destroy" -> "recognizer_destroy"
                   [] pcMain = "recognizer_destroy" -> "exit"
    /\ UNCHANGED <<queueVars, mutex, woken, g_running, pcW, segW, resW,
                   pcAudio, curSeg, nAlloc, streamActive, freedBy,
                   readAfterFree, histVars, acquired, streamW, failedAt, lateVars, sideVars>>

\* ---- the specification -----------------------------------------------------

AudioStep ==
    \/ pa_callback
    \/ queue_push_lock
    \/ queue_push_evict
    \/ queue_push_store

WorkerStep(w) ==
    \/ worker_top(w)
    \/ queue_pop_lock(w)
    \/ queue_pop_check(w)
    \/ worker_continue(w)
    \/ queue_pop_wake(w)
    \/ queue_pop_timeout(w)
    \/ recognize_begin(w)
    \/ recognize_return(w)
    \/ inject_text(w)
    \/ inject_key(w)
    \/ release_segment(w)

MainStep ==
    \/ main_check_assets
    \/ main_typer_init
    \/ main_create_recognizer
    \/ main_create_vad
    \/ main_spawn
    \/ main_pa_start
    \/ main_pa_fail
    \/ main_loop_exit
    \/ main_stop_stream
    \/ main_wake_lock
    \/ main_wake_signal
    \/ main_join
    \/ main_queue_destroy
    \/ main_release

Next ==
    \/ AudioStep
    \/ \E w \in Workers : WorkerStep(w)
    \/ MainStep
    \/ on_signal

Spec == Init /\ [][Next]_vars

\* Scheduling: a thread that can run does run.  The worker thread is
\* scheduled, a started callback runs to its end, and a holder of the queue
\* mutex releases it; main's own progress is not assumed here.
Fairness ==
    /\ \A w \in Workers : WF_vars(WorkerStep(w))
    /\ WF_vars(queue_push_lock \/ queue_push_evict \/ queue_push_store)
    /\ WF_vars(main_wake_signal)

LiveSpec == Spec /\ Fairness

\* ---- properties of the queue ------------------------------------------------

\* the buffers whose queue_push has completed
Pushed ==
    1 .. (IF pcAudio \in {"push_lock", "push_check", "push_store"}
          THEN nAlloc - 1 ELSE nAlloc)

Queued == {QueueSeq[i] : i \in 1 .. count}

PoppedSet == {popped[i] : i \in 1 .. Len(popped)}

\* C1: the queue's count always lies in 0..MAX_QUEUE_SIZE, and once more than
\* MAX_QUEUE_SIZE pushes have completed with no pop in between, the count is
\* exactly MAX_QUEUE_SIZE.
C1_CountBounded ==
    /\ count \in 0 .. MAX_QUEUE_SIZE
    /\ (pushesSincePop > MAX_QUEUE_SIZE /\ pcAudio # "push_store")
          => count = MAX_QUEUE_SIZE

C1_Witness ==
    /\ pushesSincePop > MAX_QUEUE_SIZE
    /\ pcAudio = "idle"
    /\ count = MAX_QUEUE_SIZE

\* C2: the buffers returned by successive queue_pop calls come in push order
\* (a subsequence of the push sequence), and every pushed buffer that was not
\* returned was evicted by an overflowing push or is still queued.
C2_PopIsSubsequence ==
    /\ \A i, j \in 1 .. Len(popped) : i < j => popped[i] < popped[j]
    /\ PoppedSet \subseteq Pushed
    /\ \A s \in Pushed : s \notin PoppedSet => (s \in evicted \/ s \in Queued)

C2_Witness ==
    /\ Len(popped) >= 2
    /\ \E s \in evicted : popped[1] < s /\ s < popped[Len(popped)]
    /\ count > 0

\* C3: a push on a full queue removes the entry pushed earliest, releases it
\* before the new buffer is stored, leaves the other four in their order and
\* then appends the new buffer; the callback carries on as after any push.
C3_EvictOldest ==
    [][ /\ (pcAudio = "push_check" /\ pcAudio' = "push_store"
               /\ count = MAX_QUEUE_SIZE)
            => /\ \A i \in 2 .. count : QueueSeq[1] < QueueSeq[i]
               /\ freedBy'[QueueSeq[1]] = <<"evict">>
               /\ evicted' = evicted \cup {QueueSeq[1]}
               /\ curSeg \notin Queued'
               /\ QueueSeq' = Tail(QueueSeq)
        /\ (pcAudio = "push_store" /\ pcAudio' # "push_store")
            => /\ QueueSeq' = Append(QueueSeq, curSeg)
               /\ pcAudio' = "idle"
               /\ pcMain' = pcMain /\ streamActive' = streamActive
      ]_vars

C3_Witness ==
    /\ evicted # {}
    /\ pcAudio = "idle"
    /\ count = MAX_QUEUE_SIZE
    /\ QueueSeq[count] = curSeg
    /\ \A s \in evicted : s < QueueSeq[1]

\* C4: no buffer is released twice, no released buffer is handed to the
\* recognizer, and when main returns after a normal shutdown every buffer the
\* callback allocated has been released exactly once, by an eviction, by the
\* worker or by queue_destroy.
C4_ReleasedExactlyOnce ==
    /\ \A s \in SegIds : Len(freedBy[s]) <= 1
    /\ ~readAfterFree
    /\ pcMain = "exit" =>
          \A s \in 1 .. nAlloc :
              /\ Len(freedBy[s]) = 1
              /\ freedBy[s][1] \in {"evict", "worker", "destroy"}

C4_Witness ==
    /\ pcMain = "exit"
    /\ \E a, b, c \in 1 .. nAlloc :
          /\ freedBy[a] = <<"evict">>
          /\ freedBy[b] = <<"worker">>
          /\ freedBy[c] = <<"destroy">>

\* ---- properties of the threads ----------------------------------------------

PopStates == {"pop_lock", "pop_check", "pop_wait", "pop_relock"}

\* the worker holds a popped segment it has not released yet
Processing == {"popped", "recog", "type", "press", "release"}

\* C5: queue_push never waits for the consumer and never fails: the mutex is
\* only ever held by a worker at the queue_pop test, which that worker leaves
\* by its own next step, never during a recognition call or a wait; every
\* step of a push is enabled as soon as the mutex is free, also on a full
\* queue; and the push ends with the new buffer stored as the newest entry.
C5_PushNeverBlocks ==
    /\ [](/\ \A w \in Workers :
                mutex = w => (pcW[w] = "pop_check" /\
                                (Alive => ENABLED queue_pop_check(w)))
          /\ pcAudio = "push_lock" => mutex \in Workers \cup {"free"}
          /\ (pcAudio = "push_lock" /\ mutex = "free") => ENABLED queue_push_lock
          /\ pcAudio = "push_check" => ENABLED queue_push_evict
          /\ pcAudio = "push_store" => ENABLED queue_push_store)
    /\ [][(pcAudio = "push_store" /\ pcAudio' # "push_store")
             => (count' > 0 /\ QueueSeq'[count'] = curSeg)]_vars

C5_Witness ==
    /\ \E w \in Workers : pcW[w] = "recog"
    /\ pcAudio = "idle"
    /\ count = MAX_QUEUE_SIZE
    /\ evicted # {}
    /\ QueueSeq[count] = curSeg

C7_SingleRecognizer ==
    /\ Cardinality({w \in Workers : pcW[w] = "recog"}) <= 1
    /\ Cardinality(recogCallers) <= 1
    /\ recogCallers \cap {"audio", "main"} = {}

C7_Witness ==
    /\ \E w \in Workers : pcW[w] = "recog" /\ w \in recogCallers
    /\ pcAudio = "push_store"
    /\ Len(popped) >= 2

\* C8: segments are transcribed and injected in arrival order: while the
\* worker holds a segment, every other segment popped so far was pushed
\* earlier and is completely done (recognised, injected and released), and
\* the key events emitted never go back to an earlier segment.
C8_ArrivalOrder ==
    /\ [](\A w \in Workers : pcW[w] \in Processing =>
            \A i \in 1 .. Len(popped) : popped[i] # segW[w] =>
                (popped[i] < segW[w] /\ freedBy[popped[i]] = <<"worker">>))
    /\ [][/\ lastKeySeg' >= lastKeySeg
          /\ lastKeySeg' # lastKeySeg =>
                \E w \in Workers : /\ pcW[w] \in {"type", "press"}
                                   /\ lastKeySeg' = segW[w]]_vars

C8_Witness ==
    \E w \in Workers :
        /\ pcW[w] = "recog"
        /\ lastKeySeg # 0
        /\ lastKeySeg < segW[w]
        /\ Len(popped) >= 3

\* C9: once the running flag is false, every worker leaves its loop, with no
\* help from main's wake-up signal or from further pushes; and if main is
\* scheduled too, main gets past pthread_join and completes the teardown.
C9_ShutdownTerminates ==
    /\ (~g_running ~> AllWorkersExited)
    /\ WF_vars(MainStep) => (~g_running ~> pcMain = "exit")

C9_Witness ==
    /\ ~g_running
    /\ AllWorkersExited
    /\ count = 0
    /\ shutdownLog = <<>>
    /\ Len(popped) > 0

ShutdownOrder ==
    <<"stop_audio", "signal", "join", "queue_destroy", "typer_cleanup",
      "vad_destroy", "recognizer_destroy">>

\* C10: shutdown goes: audio producer stopped, condition signalled, worker
\* joined, then the queue, the TextInjector and the engines released; no push
\* starts or proceeds once the producer is stopped, the worker has exited
\* before the join is over, and no step of a push, a pop or a recognition
\* call happens once any resource is released.
C10_ShutdownOrder ==
    /\ [](/\ Len(shutdownLog) <= Len(ShutdownOrder)
          /\ shutdownLog = SubSeq(ShutdownOrder, 1, Len(shutdownLog))
          /\ Len(shutdownLog) >= 1 => (pcAudio = "idle" /\ ~streamActive)
          /\ Len(shutdownLog) >= 3 => AllWorkersExited)
    /\ [][/\ pcAudio' # pcAudio => shutdownLog = <<>>
          /\ \A w \in Workers :
                (pcW'[w] # pcW[w] /\ pcW[w] \in PopStates \cup {"popped", "recog"})
                    => Len(shutdownLog) <= 3]_vars

C10_Witness ==
    /\ pcMain = "exit"
    /\ shutdownLog = ShutdownOrder
    /\ Len(popped) > 0
    /\ count > 0

\* ---- pa_callback in detail ----------------------------------------------------

\* an unsigned long frame_count, by the two 16-bit halves of its low 32 bits:
\* frame_count = hi * 65536 + lo
Frame(hi, lo) == [hi |-> hi, lo |-> lo]

\* frame_count values the callback is called with: half a window, a window,
\* two windows, more than the buffer holds, 2^31 + 2^30 and 2^32 - 1
FrameCounts ==
    {Frame(0, 256), Frame(0, 512), Frame(0, 1024), Frame(0, 20000),
     Frame(49152, 0), Frame(65535, 65535)}

\* (int)frame_count: the low 32 bits, read as a two's complement number
ToInt(f) ==
    IF f.hi < 32768 THEN (f.hi * 65536) + f.lo
    ELSE ((f.hi - 65536) * 65536) + f.lo

\* frame_count > VAD_WINDOW_SIZE
MoreThanAWindow(f) == f.hi > 0 \/ f.lo > VAD_WINDOW_SIZE

\* as ClampedCopy, but the copy is clamped to one window
ClampedToWindow(len, frame) ==
    IF len + ToInt(frame) > VAD_WINDOW_SIZE THEN VAD_WINDOW_SIZE - len
    ELSE ToInt(frame)

\* to_copy of pa_callback, lines 217-219
ClampedCopy(len, frame) ==
    IF len + ToInt(frame) > SAMPLE_RATE THEN SAMPLE_RATE - len
    ELSE ToInt(frame)

\* seg->n of the segments the voice-activity engine completes
SegLens == {4799, 4800, 80000}

ShouldEnqueueStrict(n) == 10 * n > 3 * SAMPLE_RATE
\* duration = (float)seg->n / SAMPLE_RATE; if (duration >= VAD_MIN_SPEECH).
\* n / 16000 is rounded to the nearest float, and so is the constant 0.3f;
\* rounding is monotone and 4800 / 16000 rounds to 0.3f itself, so the test
\* is n / 16000 >= 3 / 10.
ShouldEnqueue(n) == 10 * n >= 3 * SAMPLE_RATE

\* what the engine may complete while it is fed w windows
NewSegments(w) ==
    IF w = 0 THEN {<<>>}
    ELSE {<<>>} \cup {<<a>> : a \in SegLens}
               \cup {<<a, b>> : a \in SegLens, b \in SegLens}

\* samples carry their serial number modulo two windows
TagMod == 2 * VAD_WINDOW_SIZE

\* one entry of cbTrace: "copy" (at: the sample at g_audio_buf[0], n: to_copy),
\* "feed" (at: the first sample of the window, n: its length), "complete" and
\* "drain" (n: seg->n)
Did(op, at, n) == [op |-> op, at |-> at, n |-> n]

\* the segments the engine completes while it accepts window i of the
\* callback: the first k new ones with the first window, the others with
\* the last
CompletedAt(i, windows, new, k) ==
    IF windows = 1 THEN new
    ELSE IF i = 1 THEN SubSeq(new, 1, k)
    ELSE IF i = windows THEN SubSeq(new, k + 1, Len(new))
    ELSE <<>>

\* while (g_audio_buf_len >= VAD_WINDOW_SIZE): AcceptWaveform(g_vad,
\* g_audio_buf, VAD_WINDOW_SIZE), then the buffer moves down by shift samples
RECURSIVE FeedLoop(_, _, _, _, _, _, _, _)
FeedLoop(first, len, shift, i, windows, new, k, acc) ==
    IF len < VAD_WINDOW_SIZE THEN [first |-> first, len |-> len, trace |-> acc]
    ELSE LET done == CompletedAt(i, windows, new, k)
         IN  FeedLoop((first + shift) % TagMod, len - VAD_WINDOW_SIZE, shift,
                      i + 1, windows, new, k,
                      Append(acc, Did("feed", first, VAD_WINDOW_SIZE))
                        \o [j \in 1 .. Len(done) |->
                               Did("complete", 0, done[j])])

\* as vad_feed, but without the memmove
vad_feed_unshifted(first, len, windows, new, k) ==
    FeedLoop(first, len, 0, 1, windows, new, k, <<>>)

\* the feed loop of pa_callback, lines 224-231
vad_feed(first, len, windows, new, k) ==
    FeedLoop(first, len, VAD_WINDOW_SIZE, 1, windows, new, k, <<>>)

\* pa_callback up to its segment loop: copy the frame into g_audio_buf
\* (clamped to the buffer's capacity) and feed the engine one window at a
\* time; a NULL input returns at once. A to_copy below 0 makes memcpy's
\* size, to_copy * sizeof(float) as a size_t, larger than any object: the
\* copy runs past the end of g_audio_buf and the process is killed in it. A
\* filled buffer longer than SAMPLE_RATE has been written past its end.
pa_callback_frame ==
    /\ Alive /\ streamActive
    /\ pcAudio = "idle" /\ cbPhase = "none"
    /\ \E inNull \in BOOLEAN, fc \in FrameCounts :
         IF inNull
         THEN /\ cbTrace' = <<>>
              /\ UNCHANGED <<g_audio_buf_len, vadQ, cbPhase, bufFirst,
                             nCopied, nFed, oversize, lost>>
         ELSE LET to_copy == ClampedCopy(g_audio_buf_len, fc)
                  filled  == g_audio_buf_len + to_copy
                  windows == filled \div VAD_WINDOW_SIZE
              IN  IF to_copy < 0 \/ filled > SAMPLE_RATE
                  THEN /\ cbPhase' = "fault"
                       /\ cbTrace' = <<Did("copy", bufFirst, to_copy)>>
                       /\ oversize' = TRUE
                       /\ lost' = TRUE
                       /\ UNCHANGED <<g_audio_buf_len, vadQ, bufFirst,
                                      nCopied, nFed>>
                  ELSE \E new \in NewSegments(windows), k \in 0 .. 2 :
                    LET fed == vad_feed(bufFirst, filled, windows, new, k)
                    IN  /\ k <= Len(new)
                        /\ Len(drained) + Len(vadQ) + Len(new) <= MaxVadSegs
                        /\ nCopied' = (nCopied + to_copy) % TagMod
                        /\ nFed' = (nFed + (VAD_WINDOW_SIZE * windows))
                                      % TagMod
                        /\ oversize' = (oversize \/ MoreThanAWindow(fc))
                        /\ lost' = (lost \/ to_copy # ToInt(fc))
                        /\ g_audio_buf_len' = fed.len
                        /\ bufFirst' = fed.first
                        /\ vadQ' = vadQ \o new
                        /\ cbTrace' = <<Did("copy", bufFirst, to_copy)>>
                                         \o fed.trace
                        /\ cbPhase' = "drain"
    /\ UNCHANGED <<queueVars, mutex, woken, g_running, pcW, segW, resW,
                   pcAudio, curSeg, nAlloc, streamActive, pcMain, freedBy,
                   readAfterFree, histVars, shutdownLog, acquired, held,
                   streamW, failedAt, lateVars, drained, textVars, typerVars>>

\* as pa_callback_drain, but with an if in the place of the while: one
\* segment is taken and the callback returns
pa_callback_drain_once ==
    /\ Alive /\ streamActive
    /\ pcAudio = "idle" /\ cbPhase = "drain"
    /\ cbPhase' = "none"
    /\ cbTrace' = <<>>
    /\ IF vadQ = <<>>
       THEN UNCHANGED <<vadQ, drained, nAlloc, curSeg, pcAudio>>
       ELSE /\ vadQ' = Tail(vadQ)
            /\ IF ShouldEnqueue(Head(vadQ))
               THEN \E ok \in BOOLEAN :
                      IF ok /\ nAlloc < MaxSegs
                      THEN /\ nAlloc' = nAlloc + 1
                           /\ curSeg' = nAlloc + 1
                           /\ pcAudio' = "push_lock"
                           /\ drained' = Append(drained,
                                 [n |-> Head(vadQ), malloc |-> "ok",
                                  copy |-> nAlloc + 1])
                      ELSE /\ drained' = Append(drained,
                                 [n |-> Head(vadQ), malloc |-> "null",
                                  copy |-> 0])
                           /\ UNCHANGED <<nAlloc, curSeg, pcAudio>>
               ELSE /\ drained' = Append(drained,
                          [n |-> Head(vadQ), malloc |-> "none", copy |-> 0])
                    /\ UNCHANGED <<nAlloc, curSeg, pcAudio>>
    /\ UNCHANGED <<queueVars, mutex, woken, g_running, pcW, segW, resW,
                   streamActive, pcMain, freedBy, readAfterFree, histVars,
                   shutdownLog, acquired, held, streamW, failedAt, lateVars,
                   g_audio_buf_len, bufFirst, nCopied, nFed, oversize, lost, textVars, typerVars>>

\* pa_callback's segment loop: while (!Empty(g_vad)) { Front; filter; malloc
\* and memcpy; queue_push; DestroySpeechSegment; Pop }
pa_callback_drain ==
    /\ Alive /\ streamActive
    /\ pcAudio = "idle" /\ cbPhase = "drain"
    /\ IF vadQ = <<>>
       THEN /\ cbPhase' = "none"
            /\ cbTrace' = <<>>
            /\ UNCHANGED <<vadQ, drained, nAlloc, curSeg, pcAudio>>
       ELSE /\ vadQ' = Tail(vadQ)
            /\ cbTrace' = Append(cbTrace, Did("drain", 0, Head(vadQ)))
            /\ UNCHANGED cbPhase
            /\ IF ShouldEnqueue(Head(vadQ))
               THEN \E ok \in BOOLEAN :
                      IF ok /\ nAlloc < MaxSegs
                      THEN /\ nAlloc' = nAlloc + 1
                           /\ curSeg' = nAlloc + 1
                           /\ pcAudio' = "push_lock"
                           /\ drained' = Append(drained,
                                 [n |-> Head(vadQ), malloc |-> "ok",
                                  copy |-> nAlloc + 1])
                      ELSE /\ drained' = Append(drained,
                                 [n |-> Head(vadQ), malloc |-> "null",
                                  copy |-> 0])
                           /\ UNCHANGED <<nAlloc, curSeg, pcAudio>>
               ELSE /\ drained' = Append(drained,
                          [n |-> Head(vadQ), malloc |-> "none", copy |-> 0])
                    /\ UNCHANGED <<nAlloc, curSeg, pcAudio>>
    /\ UNCHANGED <<queueVars, mutex, woken, g_running, pcW, segW, resW,
                   streamActive, pcMain, freedBy, readAfterFree, histVars,
                   shutdownLog, acquired, held, streamW, failedAt, lateVars,
                   g_audio_buf_len, bufFirst, nCopied, nFed, oversize, lost, textVars, typerVars>>

AudioInit ==
    /\ PipelineListening
    /\ AudioIdle
    /\ TextIdle
    /\ TyperIdle

AudioNext ==
    \/ pa_callback_frame
    \/ pa_callback_drain
    \/ queue_push_lock
    \/ queue_push_evict
    \/ queue_push_store

\* the audio callback alone, the worker not being scheduled
AudioSpec == AudioInit /\ [][AudioNext]_vars

\* the buffer is in the queue exactly once, was evicted from it, or is being
\* pushed right now
PushedOnce(id) ==
    LET inQueue == Cardinality({i \in 1 .. count : QueueSeq[i] = id})
        dropped == IF id \in evicted THEN 1 ELSE 0
    IN  IF pcAudio \in {"push_lock", "push_check", "push_store"} /\ curSeg = id
        THEN inQueue + dropped = 0
        ELSE inQueue + dropped = 1

NeverPushed(d) ==
    /\ d.copy = 0
    /\ d.malloc \in {"none", "null"}

\* C12 as claimed: a segment shorter than 4800 samples is never pushed, and
\* one of 4800 samples or more is pushed exactly once, as a copy of its own.
C12_Claimed ==
    \A i \in 1 .. Len(drained) :
        /\ drained[i].n < 4800 => NeverPushed(drained[i])
        /\ drained[i].n >= 4800 =>
              (drained[i].copy # 0 /\ PushedOnce(drained[i].copy))

\* C12: a segment shorter than 4800 samples is never pushed and no buffer is
\* allocated for it; one of 4800 samples or more is pushed exactly once, as
\* a newly allocated copy, when malloc succeeds, and is dropped without a
\* push when malloc returns NULL; every buffer pushed comes from exactly one
\* such segment.
C12_DurationFilter ==
    /\ \A i \in 1 .. Len(drained) :
        /\ drained[i].n < 4800 =>
              (NeverPushed(drained[i]) /\ drained[i].malloc = "none")
        /\ drained[i].n >= 4800 =>
              /\ drained[i].malloc \in {"ok", "null"}
              /\ drained[i].malloc = "null" => NeverPushed(drained[i])
              /\ drained[i].malloc = "ok" =>
                    (drained[i].copy # 0 /\ PushedOnce(drained[i].copy))
    /\ \A id \in 1 .. nAlloc :
          Cardinality({i \in 1 .. Len(drained) : drained[i].copy = id}) = 1

C12_Witness ==
    /\ cbPhase = "none" /\ pcAudio = "idle"
    /\ \E i, j, k \in 1 .. Len(drained) :
          /\ drained[i].n = 4799 /\ drained[i].copy = 0
          /\ drained[j].n = 4800 /\ drained[j].copy \in Queued
          /\ drained[k].malloc = "null"

\* ---- properties of start-up and teardown -----------------------------------

IsRelease(step) == step \in {"typer_cleanup", "vad_destroy", "recognizer_destroy"}

\* the resources main has released at shutdown, in order
ReleaseSeq ==
    LET rel == SelectSeq(shutdownLog, IsRelease)
    IN  [i \in 1 .. Len(rel) |-> ResourceOf(rel[i])]

Reverse(sq) == [i \in 1 .. Len(sq) |-> sq[Len(sq) + 1 - i]]

\* C11: when main returns after a shutdown, the TextInjector, the recognition
\* engine and the voice-activity engine were acquired in that order and have
\* been released in the reverse order: voice-activity engine, recognition
\* engine, TextInjector.
C11_ReverseOfAcquisition ==
    pcMain = "exit" =>
        /\ acquired = <<"typer", "recognizer", "vad">>
        /\ ReleaseSeq = Reverse(acquired)

\* ---- transcription_worker from the result to the release --------------------

\* r = GetOfflineStreamResult(stream); if (r && r->text && !is_garbage(...)):
\* trim, look for a trailing command, strip the spaces before it
worker_result ==
    /\ textPc = "result"
    /\ \E r \in EngineResults :
         LET garbage == IF r.ptr = "ok" THEN is_garbage(r.text) ELSE TRUE
             text == SkipLeading(r.text)
             n    == TrimmedLen(text, Len(text), TrailingJunk)
             m    == match_trailing_command(text, n, n)
         IN  /\ result' = r
             /\ injected' = <<>>
             /\ is_garbage_ret' = garbage
             /\ IF r.ptr = "ok" /\ ~garbage
                THEN /\ wtext' = text
                     /\ tlen' = n
                     /\ cmd_start' = m.cmd_start
                     /\ cmdW' = m.cmd
                     /\ text_len' = TrimmedLen(text, m.cmd_start, Blanks)
                     /\ textPc' = "type"
                ELSE /\ wtext' = <<>>
                     /\ tlen' = 0
                     /\ cmd_start' = 0
                     /\ cmdW' = 0
                     /\ text_len' = 0
                     /\ textPc' = "release"
    /\ UNCHANGED <<queueVars, mutex, woken, g_running, pcW, segW, resW,
                   pcAudio, curSeg, nAlloc, streamActive, pcMain, freedBy,
                   readAfterFree, histVars, shutdownLog, acquired, held,
                   streamW, failedAt, lateVars, audioVars, typerVars>>

\* if (text_len > 0) { buf = malloc(text_len + 2); if (buf) { copy, append
\* ' ', typer_type(buf); free(buf); } }
worker_type ==
    /\ textPc = "type"
    /\ IF text_len > 0
       THEN \E buf_ok \in BOOLEAN :
              IF buf_ok
              THEN injected' = Append(injected,
                       [op |-> "typer_type",
                        text |-> Append(SubSeq(wtext, 1, text_len), 32)])
              ELSE injected' = Append(injected, [op |-> "malloc_null"])
       ELSE UNCHANGED injected
    /\ textPc' = "press"
    /\ UNCHANGED <<queueVars, mutex, woken, g_running, pcW, segW, resW,
                   pcAudio, curSeg, nAlloc, streamActive, pcMain, freedBy,
                   readAfterFree, histVars, shutdownLog, acquired, held,
                   streamW, failedAt, lateVars, audioVars, typerVars, result, is_garbage_ret, wtext,
                   tlen, cmd_start, text_len, cmdW>>

\* if (cmd) typer_press(cmd->keycode, cmd->ctrl)
worker_press ==
    /\ textPc = "press"
    /\ IF cmdW # 0
       THEN injected' = Append(injected,
                [op |-> "typer_press", keycode |-> g_commands[cmdW].keycode,
                 ctrl |-> g_commands[cmdW].ctrl])
       ELSE UNCHANGED injected
    /\ textPc' = "release"
    /\ UNCHANGED <<queueVars, mutex, woken, g_running, pcW, segW, resW,
                   pcAudio, curSeg, nAlloc, streamActive, pcMain, freedBy,
                   readAfterFree, histVars, shutdownLog, acquired, held,
                   streamW, failedAt, lateVars, audioVars, typerVars, result, is_garbage_ret, wtext,
                   tlen, cmd_start, text_len, cmdW>>

\* if (r) Destroy...Result(r); DestroyOfflineStream(stream); free(seg.samples):
\* the result and the locals computed from it are gone
worker_release ==
    /\ textPc = "release"
    /\ result' = [ptr |-> "null", text |-> <<>>]
    /\ textPc' = "result"
    /\ is_garbage_ret' = TRUE
    /\ wtext' = <<>>
    /\ tlen' = 0
    /\ cmd_start' = 0
    /\ text_len' = 0
    /\ cmdW' = 0
    /\ injected' = <<>>
    /\ UNCHANGED <<queueVars, mutex, woken, g_running, pcW, segW, resW,
                   pcAudio, curSeg, nAlloc, streamActive, pcMain, freedBy,
                   readAfterFree, histVars, shutdownLog, acquired, held,
                   streamW, failedAt, lateVars, audioVars, typerVars>>

TextInit ==
    /\ PipelineListening
    /\ AudioIdle
    /\ TextIdle
    /\ TyperIdle

TextNext ==
    \/ worker_result
    \/ worker_type
    \/ worker_press
    \/ worker_release

\* the worker handling one recognition result after another
TextSpec == TextInit /\ [][TextNext]_vars

\* ---- properties of the text handling -----------------------------------------

\* the text without its leading and trailing whitespace
Trimmed(t) ==
    LET keep == {i \in 1 .. Len(t) : ~isspace(t[i])}
    IN  IF keep = {} THEN <<>>
        ELSE SubSeq(t, CHOOSE i \in keep : \A j \in keep : i <= j,
                       CHOOSE i \in keep : \A j \in keep : j <= i)

Distinct(t) == Cardinality({t[i] : i \in 1 .. Len(t)})

\* is_garbage has been applied to a text
GarbageChecked == textPc # "result" /\ result.ptr = "ok"

\* C13 as claimed: garbage exactly when the trimmed text is empty, or has at
\* most 2 distinct characters and no alphanumeric one, or is shorter than 3
\* characters and has no alphanumeric one.
C13_Claimed ==
    GarbageChecked =>
        LET t == Trimmed(result.text)
            noAlnum == \A i \in 1 .. Len(t) : ~isalnum(t[i])
        IN  is_garbage_ret <=> \/ t = <<>>
                               \/ Distinct(t) <= 2 /\ noAlnum
                               \/ Len(t) < 3 /\ noAlnum

\* C13: is_garbage returns true exactly when the text without its leading
\* and trailing whitespace is empty, or has no alphanumeric byte and either
\* at most 2 distinct bytes or fewer than 3 bytes, where every byte of
\* 0xC0 or more counts as alphanumeric besides the ASCII letters and
\* digits; the X11 build's is_garbage is the same with ASCII letters and
\* digits alone; "" and "..." are garbage, "ok" and "xyz" are not.
C13_GarbageFilter ==
    /\ GarbageChecked =>
        LET t == Trimmed(result.text)
            noAlnum == \A i \in 1 .. Len(t) : ~isalnum(t[i]) /\ t[i] < 192
            noAscii == \A i \in 1 .. Len(t) : ~isalnum(t[i])
        IN  /\ is_garbage_ret <=> \/ t = <<>>
                                  \/ Distinct(t) <= 2 /\ noAlnum
                                  \/ Len(t) < 3 /\ noAlnum
            /\ is_garbage_x11(result.text) <=> \/ t = <<>>
                                               \/ Distinct(t) <= 2 /\ noAscii
                                               \/ Len(t) < 3 /\ noAscii
            /\ result.text \in {<<>>, <<46, 46, 46>>} => is_garbage_ret
            /\ result.text \in {<<111, 107>>, <<120, 121, 122>>}
                   => ~is_garbage_ret

\* the filter has just accepted U+00BF, a text of one non-alphanumeric
\* character
C13_Witness ==
    /\ GarbageChecked
    /\ result.text = <<194, 191>>
    /\ ~is_garbage_ret
    /\ textPc = "type"

\* match_trailing_command has been applied to the first tlen bytes of wtext
Matched == textPc \in {"type", "press"}

Lower(t) == [i \in 1 .. Len(t) |-> tolower(t[i])]

\* t ends with the phrase, which starts at index 0 or just after a space
EndsWithPhrase(t, phrase) ==
    /\ Len(phrase) <= Len(t)
    /\ Lower(SubSeq(t, Len(t) - Len(phrase) + 1, Len(t))) = phrase
    /\ \/ Len(t) = Len(phrase)
       \/ t[Len(t) - Len(phrase)] = 32

\* C14: match_trailing_command returns a command exactly when the text ends,
\* compared case-insensitively, with a configured phrase that starts at index
\* 0 or immediately after a space; it then sets cmd_start to the index where
\* the phrase begins; otherwise it returns no command and leaves cmd_start
\* as it was ("press enter now" and "xpress enter" give no command).
C14_TrailingCommand ==
    Matched =>
        LET t == SubSeq(wtext, 1, tlen)
            ending == {k \in 1 .. Len(g_commands) :
                          EndsWithPhrase(t, g_commands[k].phrase)}
        IN  /\ cmdW # 0 <=> ending # {}
            /\ cmdW # 0 =>
                  /\ cmdW \in ending
                  /\ cmd_start = tlen - Len(g_commands[cmdW].phrase)
            /\ cmdW = 0 => cmd_start = tlen
            /\ result.text = <<112, 114, 101, 115, 115, 32, 101, 110, 116,
                               101, 114, 32, 110, 111, 119>>
                  => cmdW = 0
            /\ result.text = <<120, 112, 114, 101, 115, 115, 32, 101, 110,
                               116, 101, 114>>
                  => cmdW = 0

\* "please Press Enter" has matched the first command at index 7
C14_Witness ==
    /\ Matched
    /\ result.text = <<112, 108, 101, 97, 115, 101, 32, 80, 114, 101, 115,
                       115, 32, 69, 110, 116, 101, 114>>
    /\ cmdW = 1
    /\ cmd_start = 7

\* the worker is done with a result that passed the filter
Handled == textPc = "release" /\ result.ptr = "ok" /\ ~is_garbage_ret

\* the typer calls among the logged events
TyperCalls == SelectSeq(injected, LAMBDA e : e.op # "malloc_null")

AllocFailed == \E i \in 1 .. Len(injected) : injected[i].op = "malloc_null"

\* t from its first non-whitespace byte to its last byte that is neither
\* whitespace nor one of . , ! ?
Remainder(t) ==
    LET first == {i \in 1 .. Len(t) : ~isspace(t[i])}
        last  == {i \in 1 .. Len(t) :
                     ~isspace(t[i]) /\ t[i] \notin {46, 44, 33, 63}}
    IN  IF last = {} THEN <<>>
        ELSE SubSeq(t, CHOOSE i \in first : \A j \in first : i <= j,
                       CHOOSE i \in last : \A j \in last : j <= i)

RECURSIVE StripBlanks(_)
StripBlanks(t) ==
    IF t # <<>> /\ t[Len(t)] = 32 THEN StripBlanks(SubSeq(t, 1, Len(t) - 1))
    ELSE t

TypeCall(t) == [op |-> "typer_type", text |-> Append(t, 32)]

\* C15 as claimed: with no trailing command the worker types the remainder
\* plus one space, or nothing when the remainder is empty, and presses no key.
C15_Claimed ==
    Handled /\ cmdW = 0 =>
        LET rem == Remainder(result.text)
        IN  TyperCalls = IF rem = <<>> THEN <<>> ELSE <<TypeCall(rem)>>

\* C15: for a non-garbage result with no trailing command the worker makes
\* no typer_press call; when the result without its leading whitespace and
\* its trailing whitespace and . , ! ? is empty it types nothing; otherwise
\* it types exactly that remainder followed by one space, unless the malloc
\* of the text buffer returns NULL, in which case it types nothing;
\* "hello world." is typed as "hello world ".
C15_TypedText ==
    Handled /\ cmdW = 0 =>
        LET rem == Remainder(result.text)
        IN  /\ \A i \in 1 .. Len(injected) : injected[i].op # "typer_press"
            /\ rem = <<>> => injected = <<>>
            /\ rem # <<>> /\ ~AllocFailed => injected = <<TypeCall(rem)>>
            /\ rem # <<>> /\ AllocFailed
                  => injected = <<[op |-> "malloc_null"]>>

\* "hello world." has been typed as "hello world "
C15_Witness ==
    /\ Handled /\ cmdW = 0
    /\ result.text = <<104, 101, 108, 108, 111, 32, 119, 111, 114, 108, 100,
                       46>>
    /\ injected = <<TypeCall(<<104, 101, 108, 108, 111, 32, 119, 111, 114,
                               108, 100>>)>>

PressCall(k) ==
    [op |-> "typer_press", keycode |-> g_commands[k].keycode,
     ctrl |-> g_commands[k].ctrl]

\* C16 as claimed: with a trailing command the worker types the text before
\* the phrase, its trailing spaces removed, plus one space (nothing when no
\* text precedes the phrase), then fires the command's key action once.
C16_Claimed ==
    Handled /\ cmdW # 0 =>
        LET pre == StripBlanks(SubSeq(wtext, 1, cmd_start))
        IN  TyperCalls = (IF pre = <<>> THEN <<>> ELSE <<TypeCall(pre)>>)
                            \o <<PressCall(cmdW)>>

\* C16: when the trimmed result ends with a command phrase at a word
\* boundary, the worker's last typer call is the command's key action, made
\* exactly once; before it, and only before it, the worker types the text
\* preceding the phrase with its trailing spaces removed plus one space,
\* unless nothing precedes the phrase or the malloc of the text buffer
\* returns NULL, in which cases it types nothing and still fires the key
\* action; for "cancel it" nothing is typed and one Ctrl+C is fired.
C16_TextThenCommand ==
    Handled /\ cmdW # 0 =>
        LET pre == StripBlanks(SubSeq(wtext, 1, cmd_start))
        IN  /\ pre = <<>> => injected = <<PressCall(cmdW)>>
            /\ pre # <<>> /\ ~AllocFailed
                  => injected = <<TypeCall(pre), PressCall(cmdW)>>
            /\ pre # <<>> /\ AllocFailed
                  => injected = <<[op |-> "malloc_null"], PressCall(cmdW)>>
            /\ result.text = cancel_it
                  => injected = <<[op |-> "typer_press", keycode |-> "KEY_C",
                                   ctrl |-> 1]>>

\* "please  Press Enter." has typed "please " and then pressed Enter
C16_Witness ==
    /\ Handled /\ cmdW = 1
    /\ result.text = <<112, 108, 101, 97, 115, 101, 32, 32, 80, 114, 101,
                       115, 115, 32, 69, 110, 116, 101, 114, 46>>
    /\ injected = <<TypeCall(<<112, 108, 101, 97, 115, 101>>),
                    [op |-> "typer_press", keycode |-> "KEY_ENTER",
                     ctrl |-> 0]>>

\* ---- properties of the worker's error handling -------------------------------

\* the worker has a rejected result (NULL, NULL or empty text, or garbage)
\* in hand and is about to release
Skipped(w) == pcW[w] = "release" /\ resW[w] = "rejected"

\* C17: a null, empty or garbage result sends the worker straight to the
\* release with no key event for the segment; the release destroys the
\* recognition stream and frees the segment, exactly once, and returns the
\* worker to the top of its loop; the segment is not put back in the queue
\* and is popped only once.
C17_SkipRejected ==
    /\ [](\A w \in Workers : Skipped(w) =>
            /\ lastKeySeg # segW[w]
            /\ streamW[w]
            /\ freedBy[segW[w]] = <<>>
            /\ segW[w] \notin Queued
            /\ Cardinality({i \in 1 .. Len(popped) : popped[i] = segW[w]}) = 1)
    /\ [][\A w \in Workers :
            /\ (pcW[w] = "recog" /\ resW'[w] = "rejected") =>
                  /\ pcW'[w] = "release"
                  /\ lastKeySeg' = lastKeySeg
            /\ (Skipped(w) /\ pcW'[w] # pcW[w]) =>
                  /\ pcW'[w] = "top"
                  /\ ~streamW'[w]
                  /\ freedBy'[segW[w]] = <<"worker">>
                  /\ lastKeySeg' = lastKeySeg]_vars

\* the first segment was released without a key event and the second one
\* has been rejected as well
C17_Witness ==
    \E w \in Workers :
        /\ Skipped(w)
        /\ Len(popped) = 2
        /\ freedBy[popped[1]] = <<"worker">>
        /\ lastKeySeg = 0

\* ---- typer.c: the compiled layout ----------------------------------------------

\* bound: number of characters (or stray bytes) in a text given to typer_type
MaxTypeLen == 2

EVDEV_OFFSET == 8

\* xkb_utf32_to_keysym of libxkbcommon: Latin-1 maps to itself, a few control
\* characters to the 0xff00 function keysyms, DEL to Delete; surrogates,
\* non-characters and values past U+10FFFF give XKB_KEY_NoSymbol (0); the
\* euro sign has the keysym 0x20ac from the table of named keysyms; anything
\* else is 0x01000000 | ucs
utf32_to_keysym(ucs) ==
    IF ucs \in (32 .. 126) \cup (160 .. 255) THEN ucs
    ELSE IF ucs \in (8 .. 11) \cup {13, 27} THEN 65280 + ucs
    ELSE IF ucs = 127 THEN 65535
    ELSE IF \/ ucs \in 55296 .. 57343
            \/ ucs \in 64976 .. 65007
            \/ ucs > 1114111
            \/ ucs % 65536 \in {65534, 65535} THEN 0
    ELSE IF ucs = 8364 THEN 8364
    ELSE 16777216 + ucs

\* one shift level of one group of a key: the keysyms it produces and the
\* modifier masks xkb_keymap_key_get_mods_for_level reports for it
Lv(syms, masks) == [syms |-> syms, masks |-> masks]

\* the eight real modifiers every compiled keymap defines
RealMods ==
    {"Shift", "Lock", "Control", "Mod1", "Mod2", "Mod3", "Mod4", "Mod5"}

\* one group: a, A with Shift or Lock; e-acute, euro with AltGr
KeymapPlain ==
    [min_kc |-> 38, max_kc |-> 39, mods |-> RealMods,
     keys |-> (38 :> << << Lv(<<97>>, <<{}>>),
                          Lv(<<65>>, <<{"Shift"}, {"Lock"}>>) >> >>
            @@ 39 :> << << Lv(<<233>>, <<{}>>),
                          Lv(<<8364>>, <<{"Mod5"}>>) >> >>)]

\* one key of four levels, a key without groups, a level of two keysyms
KeymapFourLevel ==
    [min_kc |-> 38, max_kc |-> 40, mods |-> RealMods,
     keys |-> (38 :> << << Lv(<<97>>, <<{}>>),
                          Lv(<<65>>, <<{"Shift"}>>),
                          Lv(<<233>>, <<{"Mod5"}>>),
                          Lv(<<8364>>, <<{"Shift", "Mod5"}>>) >> >>
            @@ 39 :> << >>
            @@ 40 :> << << Lv(<<97, 65>>, <<{}>>) >> >>)]

\* two groups: a only in the second group, of two keys; A in the second
\* group of key 38 and in the first group of key 40
KeymapTwoGroups ==
    [min_kc |-> 38, max_kc |-> 40, mods |-> RealMods,
     keys |-> (38 :> << << Lv(<<120>>, <<{}>>) >>,
                        << Lv(<<97>>, <<{}>>), Lv(<<65>>, <<{"Shift"}>>) >> >>
            @@ 39 :> << << Lv(<<121>>, <<{}>>) >>,
                        << Lv(<<233>>, <<{}>>), Lv(<<97>>, <<{"Shift"}>>) >> >>
            @@ 40 :> << << Lv(<<122>>, <<{}>>),
                          Lv(<<65>>, <<{"Shift"}>>) >> >>)]

\* the second level of key 38 is reached by no modifier mask (the entry of
\* its key type is inactive), so get_mods_for_level returns 0 masks for it
KeymapUnreachableLevel ==
    [min_kc |-> 38, max_kc |-> 39, mods |-> RealMods,
     keys |-> (38 :> << << Lv(<<97>>, <<{}>>), Lv(<<65>>, <<>>) >> >>
            @@ 39 :> << << Lv(<<233>>, <<{}>>),
                          Lv(<<8364>>, <<{"Mod5"}>>) >> >>)]

\* levels reached by several modifiers at once, and one reached by Lock
KeymapManyMods ==
    [min_kc |-> 38, max_kc |-> 39, mods |-> RealMods,
     keys |-> (38 :> << << Lv(<<97>>, <<{}>>),
                          Lv(<<65>>, <<{"Shift", "Control", "Mod1", "Mod4",
                                        "Mod5"}>>),
                          Lv(<<233>>, <<{"Control", "Mod5"}, {"Shift"}>>) >> >>
            @@ 39 :> << << Lv(<<121>>, <<{}>>),
                          Lv(<<8364>>, <<{"Lock"}>>) >> >>)]

Keymaps ==
    {KeymapPlain, KeymapFourLevel, KeymapTwoGroups, KeymapUnreachableLevel,
     KeymapManyMods}

\* ---- typer.c: lookup and emission ------------------------------------------------

mod_map_ctrl_first ==
    << [name |-> "Control", evdev_key |-> "KEY_LEFTCTRL"],
       [name |-> "Shift",   evdev_key |-> "KEY_LEFTSHIFT"],
       [name |-> "Mod1",    evdev_key |-> "KEY_LEFTALT"],
       [name |-> "Mod4",    evdev_key |-> "KEY_LEFTMETA"],
       [name |-> "Mod5",    evdev_key |-> "KEY_RIGHTALT"] >>
\* XKB_MOD_NAME_SHIFT, _CTRL, _ALT, _LOGO are "Shift", "Control", "Mod1", "Mod4"
mod_map ==
    << [name |-> "Shift",   evdev_key |-> "KEY_LEFTSHIFT"],
       [name |-> "Control", evdev_key |-> "KEY_LEFTCTRL"],
       [name |-> "Mod1",    evdev_key |-> "KEY_LEFTALT"],
       [name |-> "Mod4",    evdev_key |-> "KEY_LEFTMETA"],
       [name |-> "Mod5",    evdev_key |-> "KEY_RIGHTALT"] >>

\* KeyLookup result = { .evdev_keycode = -1, .mods = 0 }; layout and level
\* record where the match was found
NoKey == [evdev_keycode |-> -1, mods |-> {}, layout |-> -1, level |-> -1]

\* the three nested loops of lookup_char from (kc, layout, level) on, layout
\* and level counted from 1 here
RECURSIVE ScanFrom(_, _, _, _, _, _)
ScanFrom(km, target, kc, layout, level, res) ==
    IF kc > km.max_kc THEN res
    ELSE IF layout > Len(km.keys[kc])
    THEN ScanFrom(km, target, kc + 1, 1, 1, res)
    ELSE IF level > Len(km.keys[kc][layout])
    THEN ScanFrom(km, target, kc, layout + 1, 1, res)
    ELSE LET lv == km.keys[kc][layout][level]
             hit == [evdev_keycode |-> kc - EVDEV_OFFSET,
                     mods |-> IF Len(lv.masks) > 0 THEN lv.masks[1] ELSE {},
                     layout |-> layout - 1, level |-> level - 1]
         IN  IF Len(lv.syms) # 1 \/ lv.syms[1] # target
             THEN ScanFrom(km, target, kc, layout, level + 1, res)
             ELSE IF layout = 1 THEN hit
             ELSE ScanFrom(km, target, kc, layout, level + 1, hit)

\* as ScanFrom, but the first match is returned whatever its group
RECURSIVE ScanAnyGroup(_, _, _, _, _)
ScanAnyGroup(km, target, kc, layout, level) ==
    IF kc > km.max_kc THEN NoKey
    ELSE IF layout > Len(km.keys[kc])
    THEN ScanAnyGroup(km, target, kc + 1, 1, 1)
    ELSE IF level > Len(km.keys[kc][layout])
    THEN ScanAnyGroup(km, target, kc, layout + 1, 1)
    ELSE LET lv == km.keys[kc][layout][level]
         IN  IF Len(lv.syms) # 1 \/ lv.syms[1] # target
             THEN ScanAnyGroup(km, target, kc, layout, level + 1)
             ELSE [evdev_keycode |-> kc - EVDEV_OFFSET,
                   mods |-> IF Len(lv.masks) > 0 THEN lv.masks[1] ELSE {},
                   layout |-> layout - 1, level |-> level - 1]

lookup_char_any_group(km, codepoint) ==
    LET target == utf32_to_keysym(codepoint)
    IN  IF target = 0 THEN NoKey
        ELSE ScanAnyGroup(km, target, km.min_kc, 1, 1)

lookup_char(km, codepoint) ==
    LET target == utf32_to_keysym(codepoint)
    IN  IF target = 0 THEN NoKey
        ELSE ScanFrom(km, target, km.min_kc, 1, 1, NoKey)

\* emit(EV_KEY, code, val) for a key named in the source, for a key given by
\* its number, and emit(EV_SYN, SYN_REPORT, 0)
NamedKey(k, v) == [type |-> "EV_KEY", key |-> k, value |-> v]
CodeKey(c, v)  == [type |-> "EV_KEY", code |-> c, value |-> v]
SynReport      == [type |-> "EV_SYN", key |-> "SYN_REPORT", value |-> 0]

\* every key event is followed by a SYN_REPORT
WithSyn(evs) ==
    [i \in 1 .. 2 * Len(evs) |->
        IF i % 2 = 1 THEN evs[(i + 1) \div 2] ELSE SynReport]

\* key_tap(code) for a key named in the source
key_tap(k) == WithSyn(<<NamedKey(k, 1), NamedKey(k, 0)>>)

\* as type_codepoint, but the modifiers are released in the order they were
\* pressed
type_codepoint_release_in_press_order(km, cp) ==
    IF cp \in {10, 13} THEN [kl |-> NoKey, ev |-> key_tap("KEY_ENTER")]
    ELSE IF cp = 9 THEN [kl |-> NoKey, ev |-> key_tap("KEY_TAB")]
    ELSE LET kl == lookup_char(km, cp)
             held_mods == SelectSeq(mod_map,
                              LAMBDA m : m.name \in km.mods
                                            /\ m.name \in kl.mods)
             nmod == Len(held_mods)
             downs == [i \in 1 .. nmod |-> NamedKey(held_mods[i].evdev_key, 1)]
             ups   == [i \in 1 .. nmod |-> NamedKey(held_mods[i].evdev_key, 0)]
         IN  IF kl.evdev_keycode < 0 THEN [kl |-> kl, ev |-> <<>>]
             ELSE [kl |-> kl,
                   ev |-> WithSyn(downs \o <<CodeKey(kl.evdev_keycode, 1),
                                             CodeKey(kl.evdev_keycode, 0)>>
                                        \o ups)]

\* type_codepoint: the events it emits and the lookup it made
type_codepoint(km, cp) ==
    IF cp \in {10, 13} THEN [kl |-> NoKey, ev |-> key_tap("KEY_ENTER")]
    ELSE IF cp = 9 THEN [kl |-> NoKey, ev |-> key_tap("KEY_TAB")]
    ELSE LET kl == lookup_char(km, cp)
             held_mods == SelectSeq(mod_map,
                              LAMBDA m : m.name \in km.mods
                                            /\ m.name \in kl.mods)
             nmod == Len(held_mods)
             downs == [i \in 1 .. nmod |-> NamedKey(held_mods[i].evdev_key, 1)]
             ups   == [i \in 1 .. nmod |->
                          NamedKey(held_mods[nmod + 1 - i].evdev_key, 0)]
         IN  IF kl.evdev_keycode < 0 THEN [kl |-> kl, ev |-> <<>>]
             ELSE [kl |-> kl,
                   ev |-> WithSyn(downs \o <<CodeKey(kl.evdev_keycode, 1),
                                             CodeKey(kl.evdev_keycode, 0)>>
                                        \o ups)]

\* ---- typer.c: typer_type -----------------------------------------------------------

\* a, A, e-acute, euro, U+1F600, newline, tab, the non-character U+FFFF,
\* and -1 for a stray continuation byte
TypeUnits == {97, 65, 233, 8364, 128512, 10, 9, 65535, -1}

\* the UTF-8 bytes of a unit
Encode(cp) ==
    IF cp < 0 THEN <<191>>
    ELSE IF cp < 128 THEN <<cp>>
    ELSE IF cp < 2048 THEN <<192 + (cp \div 64), 128 + (cp % 64)>>
    ELSE IF cp < 65536
    THEN <<224 + (cp \div 4096), 128 + ((cp \div 64) % 64), 128 + (cp % 64)>>
    ELSE <<240 + (cp \div 262144), 128 + ((cp \div 4096) % 64),
           128 + ((cp \div 64) % 64), 128 + (cp % 64)>>

RECURSIVE EncodeAll(_)
EncodeAll(us) ==
    IF us = <<>> THEN <<>> ELSE Encode(Head(us)) \o EncodeAll(Tail(us))

RECURSIVE UnitsUpTo(_)
UnitsUpTo(n) ==
    IF n = 0 THEN {<<>>}
    ELSE LET shorter == UnitsUpTo(n - 1)
         IN  shorter \cup {Append(t, c) : t \in shorter, c \in TypeUnits}

\* the bytes typer_type can reach from 'text': the text, its terminating
\* NUL, and what happens to lie behind it; a NUL is taken to follow at the
\* latest three bytes behind the terminator
Memory(b, m) == b \o <<0>> \o m \o <<0>>

\* what may lie in the three bytes behind the terminator
MemoryBehind == {<<0, 0, 0>>, <<97, 0, 0>>, <<0, 97, 97>>}

\* the text a caller passes: the encoding of the units, or that encoding cut
\* short inside its last multi-byte sequence
Truncate(b, chop) == SubSeq(b, 1, Len(b) - chop)

\* the decoding step of typer_type at byte p: the codepoint and the number
\* of bytes consumed; ok is FALSE for a byte that starts no sequence
DecodeAt(b, p) ==
    IF b[p] < 128 THEN [ok |-> TRUE, cp |-> b[p], n |-> 1]
    ELSE IF b[p] \in 192 .. 223
    THEN [ok |-> TRUE, n |-> 2,
          cp |-> ((b[p] % 32) * 64) + (b[p + 1] % 64)]
    ELSE IF b[p] \in 224 .. 239
    THEN [ok |-> TRUE, n |-> 3,
          cp |-> ((b[p] % 16) * 4096) + ((b[p + 1] % 64) * 64)
                    + (b[p + 2] % 64)]
    ELSE IF b[p] \in 240 .. 247
    THEN [ok |-> TRUE, n |-> 4,
          cp |-> ((b[p] % 8) * 262144) + ((b[p + 1] % 64) * 4096)
                    + ((b[p + 2] % 64) * 64) + (b[p + 3] % 64)]
    ELSE [ok |-> FALSE, cp |-> 0, n |-> 1]

\* as TypeReturnsAtOnce, but only a NULL text is refused
TypeReturnsOnNullOnly(fd, isNull) == isNull

\* typer_type: if (s_fd < 0 || !text) return;
TypeReturnsAtOnce(fd, isNull) == fd < 0 \/ isNull

\* typer_type(text) is called; without a device, or with a NULL text, it
\* returns at once
typer_type_call ==
    /\ typerPc = "idle"
    /\ \E isNull \in BOOLEAN, us \in UnitsUpTo(MaxTypeLen), chop \in 0 .. 3,
          m \in MemoryBehind :
         /\ chop > 0 => us # <<>> /\ chop < Len(Encode(us[Len(us)]))
         /\ chop = 0 => m = <<0, 0, 0>>
         /\ IF TypeReturnsAtOnce(s_fd, isNull)
            THEN /\ typerPc' = "skipped"
                 /\ UNCHANGED <<tcps, tbytes, tmem>>
            ELSE /\ typerPc' = "loop"
                 /\ tcps' = us
                 /\ tbytes' = Truncate(EncodeAll(us), chop)
                 /\ tmem' = m
    /\ UNCHANGED <<queueVars, mutex, woken, g_running, pcW, segW, resW,
                   pcAudio, curSeg, nAlloc, streamActive, pcMain, freedBy,
                   readAfterFree, histVars, shutdownLog, acquired, held,
                   streamW, failedAt, lateVars, audioVars, textVars,
                   s_keymap, s_fd, s_ctx, typerHeld, typerOps, initRet, pressArgs, tpos, events, typedLog,
                   xtestVars>>

\* as typer_type_char, but an unmappable character ends the typing
typer_type_char_abort ==
    /\ typerPc = "loop"
    /\ Memory(tbytes, tmem)[tpos] # 0
    /\ LET d == DecodeAt(Memory(tbytes, tmem), tpos)
           t == type_codepoint(s_keymap, d.cp)
       IN  IF ~d.ok
           THEN /\ tpos' = tpos + 1
                /\ UNCHANGED <<events, typedLog>>
           ELSE /\ tpos' = IF t.ev = <<>> THEN Len(tbytes) + 1 ELSE tpos + d.n
                /\ events' = events \o t.ev
                /\ typedLog' = Append(typedLog,
                                  [cp |-> d.cp, kl |-> t.kl, ev |-> t.ev])
    /\ UNCHANGED <<queueVars, mutex, woken, g_running, pcW, segW, resW,
                   pcAudio, curSeg, nAlloc, streamActive, pcMain, freedBy,
                   readAfterFree, histVars, shutdownLog, acquired, held,
                   streamW, failedAt, lateVars, audioVars, textVars,
                   s_keymap, s_fd, s_ctx, typerHeld, typerOps, initRet, pressArgs, typerPc, tcps, tbytes, tmem,
                   xtestVars>>

\* one round of typer_type's loop, entered when *p is not 0: decode the
\* sequence at p, and either skip an invalid byte or hand the codepoint to
\* type_codepoint
typer_type_char ==
    /\ typerPc = "loop"
    /\ Memory(tbytes, tmem)[tpos] # 0
    /\ LET d == DecodeAt(Memory(tbytes, tmem), tpos)
           t == type_codepoint(s_keymap, d.cp)
       IN  IF ~d.ok
           THEN /\ tpos' = tpos + 1
                /\ UNCHANGED <<events, typedLog>>
           ELSE /\ tpos' = tpos + d.n
                /\ events' = events \o t.ev
                /\ typedLog' = Append(typedLog,
                                  [cp |-> d.cp, kl |-> t.kl, ev |-> t.ev])
    /\ UNCHANGED <<queueVars, mutex, woken, g_running, pcW, segW, resW,
                   pcAudio, curSeg, nAlloc, streamActive, pcMain, freedBy,
                   readAfterFree, histVars, shutdownLog, acquired, held,
                   streamW, failedAt, lateVars, audioVars, textVars,
                   s_keymap, s_fd, s_ctx, typerHeld, typerOps, initRet, pressArgs, typerPc, tcps, tbytes, tmem,
                   xtestVars>>

\* a read behind the terminator, in the loop test or inside a round, hits
\* memory the process may not read: it is killed
typer_type_fault ==
    /\ typerPc = "loop"
    /\ tpos + DecodeAt(Memory(tbytes, tmem), tpos).n - 1 > Len(tbytes) + 1
    /\ typerPc' = "fault"
    /\ UNCHANGED <<queueVars, mutex, woken, g_running, pcW, segW, resW,
                   pcAudio, curSeg, nAlloc, streamActive, pcMain, freedBy,
                   readAfterFree, histVars, shutdownLog, acquired, held,
                   streamW, failedAt, lateVars, audioVars, textVars,
                   s_keymap, s_fd, s_ctx, typerHeld, typerOps, initRet, pressArgs, tcps, tbytes, tmem, tpos,
                   events, typedLog, xtestVars>>

\* *p == 0: typer_type returns
typer_type_return ==
    /\ \/ typerPc = "skipped"
       \/ typerPc = "loop" /\ Memory(tbytes, tmem)[tpos] = 0
    /\ typerPc' = "idle"
    /\ tcps' = <<>>
    /\ tbytes' = <<>>
    /\ tpos' = 1
    /\ tmem' = <<0, 0, 0>>
    /\ events' = <<>>
    /\ typedLog' = <<>>
    /\ xPc' = "idle"
    /\ xevents' = <<>>
    /\ UNCHANGED <<queueVars, mutex, woken, g_running, pcW, segW, resW,
                   pcAudio, curSeg, nAlloc, streamActive, pcMain, freedBy,
                   readAfterFree, histVars, shutdownLog, acquired, held,
                   streamW, failedAt, lateVars, audioVars, textVars,
                   s_keymap, s_fd, s_ctx, typerHeld, typerOps, initRet, pressArgs>>

\* ---- XTest build: type_text ----------------------------------------------------------

\* the number of levels of the widest group of a key
KeyWidth(k) ==
    IF Len(k) = 0 THEN 0
    ELSE CHOOSE w \in {Len(k[g]) : g \in 1 .. Len(k)} :
             \A g \in 1 .. Len(k) : Len(k[g]) <= w

\* Xlib's view of a key: XkbKeyNumSyms is width * groups, and XkbKeySym(j)
\* is the keysym of group j / width, level j % width, NoSymbol (0) where the
\* group has no such level or the level has not exactly one keysym
XkbKeyNumSyms(km, kc) == KeyWidth(km.keys[kc]) * Len(km.keys[kc])

XkbKeySym(km, kc, j) ==
    LET k == km.keys[kc]
        g == (j \div KeyWidth(k)) + 1
        l == (j % KeyWidth(k)) + 1
    IN  IF l > Len(k[g]) \/ Len(k[g][l].syms) # 1 THEN 0
        ELSE k[g][l].syms[1]

\* XKeysymToKeycode: column after column, the lowest keycode that has the
\* keysym in that column; 0 when no key has it
RECURSIVE KeycodeFromColumn(_, _, _)
KeycodeFromColumn(km, ks, j) ==
    LET has  == {i \in km.min_kc .. km.max_kc : j < XkbKeyNumSyms(km, i)}
        hits == {i \in has : XkbKeySym(km, i, j) = ks}
    IN  IF hits # {} THEN CHOOSE i \in hits : \A h \in hits : i <= h
        ELSE IF has = {} THEN 0
        ELSE KeycodeFromColumn(km, ks, j + 1)

XKeysymToKeycode(km, ks) == KeycodeFromColumn(km, ks, 0)

\* XkbKeycodeToKeysym(dpy, kc, group, level)
XkbKeycodeToKeysym(km, kc, group, level) ==
    LET k == km.keys[kc]
    IN  IF group >= Len(k) THEN 0
        ELSE IF level >= Len(k[group + 1]) THEN 0
        ELSE IF Len(k[group + 1][level + 1].syms) # 1 THEN 0
        ELSE k[group + 1][level + 1].syms[1]

\* XTestFakeKeyEvent(g_dpy, kc, press, 0), and the same for g_shift
XTestFakeKeyEvent(kc, press) == [keycode |-> kc, is_press |-> press]
XTestFakeShift(press) == [g_shift |-> TRUE, is_press |-> press]

\* one round of type_text's loop, for the byte c
type_text_char(km, c) ==
    IF c < 32 \/ c > 126 THEN <<>>
    ELSE LET ks == c
             kc == XKeysymToKeycode(km, ks)
             need_shift == XkbKeycodeToKeysym(km, kc, 0, 0) # ks
         IN  IF kc = 0 THEN <<>>
             ELSE (IF need_shift THEN <<XTestFakeShift(TRUE)>> ELSE <<>>)
                  \o <<XTestFakeKeyEvent(kc, TRUE),
                       XTestFakeKeyEvent(kc, FALSE)>>
                  \o (IF need_shift THEN <<XTestFakeShift(FALSE)>> ELSE <<>>)

\* type_text(text) with an open display: the fake key events it sends
RECURSIVE type_text(_, _)
type_text(km, text) ==
    IF text = <<>> THEN <<>>
    ELSE type_text_char(km, Head(text)) \o type_text(km, Tail(text))

\* the XTest build is handed the text typer_type was handed, on the same
\* layout
x11_type_text ==
    /\ typerPc = "loop"
    /\ xPc = "idle"
    /\ xPc' = "done"
    /\ xevents' = type_text(s_keymap, tbytes)
    /\ UNCHANGED <<queueVars, mutex, woken, g_running, pcW, segW, resW,
                   pcAudio, curSeg, nAlloc, streamActive, pcMain, freedBy,
                   readAfterFree, histVars, shutdownLog, acquired, held,
                   streamW, failedAt, lateVars, audioVars, textVars, s_keymap, s_fd, s_ctx, typerHeld, typerOps, initRet, pressArgs, typerPc, tcps,
                   tbytes, tmem, tpos, events, typedLog>>

\* ---- typer.c: typer_press ----------------------------------------------------------

\* as typer_press, but Ctrl is released before the key is tapped
typer_press_ctrl_tapped(fd, evdev_keycode, with_ctrl) ==
    IF fd < 0 THEN <<>>
    ELSE (IF with_ctrl # 0
          THEN WithSyn(<<NamedKey("KEY_LEFTCTRL", 1),
                         NamedKey("KEY_LEFTCTRL", 0)>>)
          ELSE <<>>)
         \o key_tap(evdev_keycode)

\* typer_press(evdev_keycode, with_ctrl) with s_fd = fd: the events it emits
typer_press(fd, evdev_keycode, with_ctrl) ==
    IF fd < 0 THEN <<>>
    ELSE (IF with_ctrl # 0 THEN WithSyn(<<NamedKey("KEY_LEFTCTRL", 1)>>)
          ELSE <<>>)
         \o key_tap(evdev_keycode)
         \o (IF with_ctrl # 0 THEN WithSyn(<<NamedKey("KEY_LEFTCTRL", 0)>>)
             ELSE <<>>)

\* the worker calls typer_press(cmd->keycode, cmd->ctrl) for a command of
\* g_commands
typer_press_call ==
    /\ typerPc = "idle"
    /\ \E k \in 1 .. Len(g_commands) :
         /\ pressArgs' = <<g_commands[k].keycode, g_commands[k].ctrl>>
         /\ events' = events \o typer_press(s_fd, g_commands[k].keycode,
                                            g_commands[k].ctrl)
    /\ typerPc' = "pressed"
    /\ UNCHANGED <<queueVars, mutex, woken, g_running, pcW, segW, resW,
                   pcAudio, curSeg, nAlloc, streamActive, pcMain, freedBy,
                   readAfterFree, histVars, shutdownLog, acquired, held,
                   streamW, failedAt, lateVars, audioVars, textVars, s_keymap, s_fd, s_ctx, typerHeld, typerOps, initRet,
                   tcps, tbytes, tmem, tpos, typedLog, xtestVars>>

\* typer_press has returned
typer_press_return ==
    /\ typerPc = "pressed"
    /\ typerPc' = "idle"
    /\ events' = <<>>
    /\ pressArgs' = <<>>
    /\ UNCHANGED <<queueVars, mutex, woken, g_running, pcW, segW, resW,
                   pcAudio, curSeg, nAlloc, streamActive, pcMain, freedBy,
                   readAfterFree, histVars, shutdownLog, acquired, held,
                   streamW, failedAt, lateVars, audioVars, textVars, s_keymap, s_fd, s_ctx, typerHeld, typerOps, initRet,
                   tcps, tbytes, tmem, tpos, typedLog, xtestVars>>

\* ---- typer.c: typer_init and typer_cleanup ------------------------------------------

\* the steps of typer_init that can fail: xkb_context_new,
\* xkb_keymap_new_from_names, open("/dev/uinput"), and UI_DEV_SETUP or
\* UI_DEV_CREATE
InitSteps == {"context", "keymap", "open", "setup"}

\* the resource a call acquires or releases
ResourceOfCall(op) ==
    IF op \in {"xkb_context_new", "xkb_context_unref"} THEN "context"
    ELSE IF op \in {"xkb_keymap_new_from_names", "xkb_keymap_unref"}
    THEN "keymap"
    ELSE IF op \in {"open", "close"} THEN "fd"
    ELSE "device"

Acquiring ==
    {"xkb_context_new", "xkb_keymap_new_from_names", "open", "UI_DEV_CREATE"}

\* the resources held once the calls of ops have been made
RECURSIVE HeldAfter(_, _)
HeldAfter(h, ops) ==
    IF ops = <<>> THEN h
    ELSE HeldAfter(IF Head(ops) \in Acquiring
                   THEN h \cup {ResourceOfCall(Head(ops))}
                   ELSE h \ {ResourceOfCall(Head(ops))},
                   Tail(ops))

\* as typer_init_result, but a failure past the first step returns without
\* releasing anything
typer_init_no_unwind(failAt, layout) ==
    IF failAt = "context"
    THEN [ctx |-> "NULL", keymap |-> s_keymap, fd |-> s_fd, ret |-> -1,
          ops |-> <<>>]
    ELSE IF failAt = "keymap"
    THEN [ctx |-> "ctx", keymap |-> NoKeymap, fd |-> s_fd, ret |-> -1,
          ops |-> <<"xkb_context_new">>]
    ELSE IF failAt = "open"
    THEN [ctx |-> "ctx", keymap |-> layout, fd |-> -1, ret |-> -1,
          ops |-> <<"xkb_context_new", "xkb_keymap_new_from_names">>]
    ELSE IF failAt = "setup"
    THEN [ctx |-> "ctx", keymap |-> layout, fd |-> 3, ret |-> -1,
          ops |-> <<"xkb_context_new", "xkb_keymap_new_from_names", "open">>]
    ELSE [ctx |-> "ctx", keymap |-> layout, fd |-> 3, ret |-> 0,
          ops |-> <<"xkb_context_new", "xkb_keymap_new_from_names", "open",
                    "UI_DEV_CREATE">>]

\* typer_init when the step failAt fails ("none": no step fails) and the
\* layout detected compiles to the keymap 'layout': the values of s_ctx,
\* s_keymap and s_fd it leaves, what it returns, and its acquiring and
\* releasing calls in order
typer_init_result(failAt, layout) ==
    IF failAt = "context"
    THEN [ctx |-> "NULL", keymap |-> s_keymap, fd |-> s_fd, ret |-> -1,
          ops |-> <<>>]
    ELSE IF failAt = "keymap"
    THEN [ctx |-> "NULL", keymap |-> NoKeymap, fd |-> s_fd, ret |-> -1,
          ops |-> <<"xkb_context_new", "xkb_context_unref">>]
    ELSE IF failAt = "open"
    THEN [ctx |-> "NULL", keymap |-> NoKeymap, fd |-> -1, ret |-> -1,
          ops |-> <<"xkb_context_new", "xkb_keymap_new_from_names",
                    "xkb_keymap_unref", "xkb_context_unref">>]
    ELSE IF failAt = "setup"
    THEN [ctx |-> "NULL", keymap |-> NoKeymap, fd |-> -1, ret |-> -1,
          ops |-> <<"xkb_context_new", "xkb_keymap_new_from_names", "open",
                    "close", "xkb_keymap_unref", "xkb_context_unref">>]
    ELSE [ctx |-> "ctx", keymap |-> layout, fd |-> 3, ret |-> 0,
          ops |-> <<"xkb_context_new", "xkb_keymap_new_from_names", "open",
                    "UI_DEV_CREATE">>]

\* typer_init() is called on a module that holds nothing (the program calls
\* it once, at start-up; a caller may call it again after typer_cleanup or
\* after a failure)
typer_init_call ==
    /\ typerPc = "idle"
    /\ s_fd < 0 /\ s_keymap = NoKeymap /\ s_ctx = "NULL"
    /\ \E failAt \in InitSteps \cup {"none"}, layout \in Keymaps :
         LET r == typer_init_result(failAt, layout)
         IN  /\ s_ctx' = r.ctx
             /\ s_keymap' = r.keymap
             /\ s_fd' = r.fd
             /\ initRet' = r.ret
             /\ typerOps' = r.ops
             /\ typerHeld' = HeldAfter(typerHeld, r.ops)
    /\ typerPc' = "inited"
    /\ UNCHANGED <<queueVars, mutex, woken, g_running, pcW, segW, resW,
                   pcAudio, curSeg, nAlloc, streamActive, pcMain, freedBy,
                   readAfterFree, histVars, shutdownLog, acquired, held,
                   streamW, failedAt, lateVars, audioVars, textVars,
                   pressArgs, tcps, tbytes, tmem, tpos, events, typedLog,
                   xtestVars>>

\* typer_init has returned
typer_init_return ==
    /\ typerPc = "inited"
    /\ typerPc' = "idle"
    /\ typerOps' = <<>>
    /\ initRet' = 0
    /\ UNCHANGED <<queueVars, mutex, woken, g_running, pcW, segW, resW,
                   pcAudio, curSeg, nAlloc, streamActive, pcMain, freedBy,
                   readAfterFree, histVars, shutdownLog, acquired, held,
                   streamW, failedAt, lateVars, audioVars, textVars,
                   s_keymap, s_fd, s_ctx, typerHeld, pressArgs, tcps,
                   tbytes, tmem, tpos, events, typedLog, xtestVars>>

\* the releasing calls of typer_cleanup, in order
typer_cleanup_calls(fd, keymap, ctx) ==
    (IF fd >= 0 THEN <<"UI_DEV_DESTROY", "close">> ELSE <<>>)
    \o (IF keymap # NoKeymap THEN <<"xkb_keymap_unref">> ELSE <<>>)
    \o (IF ctx # "NULL" THEN <<"xkb_context_unref">> ELSE <<>>)

\* typer_cleanup() is called
typer_cleanup_call ==
    /\ typerPc = "idle"
    /\ typerOps' = typer_cleanup_calls(s_fd, s_keymap, s_ctx)
    /\ typerHeld' = HeldAfter(typerHeld, typerOps')
    /\ s_fd' = -1
    /\ s_keymap' = NoKeymap
    /\ s_ctx' = "NULL"
    /\ typerPc' = "cleaned"
    /\ UNCHANGED <<queueVars, mutex, woken, g_running, pcW, segW, resW,
                   pcAudio, curSeg, nAlloc, streamActive, pcMain, freedBy,
                   readAfterFree, histVars, shutdownLog, acquired, held,
                   streamW, failedAt, lateVars, audioVars, textVars,
                   initRet, pressArgs, tcps, tbytes, tmem, tpos, events,
                   typedLog, xtestVars>>

\* typer_cleanup has returned
typer_cleanup_return ==
    /\ typerPc = "cleaned"
    /\ typerPc' = "idle"
    /\ typerOps' = <<>>
    /\ UNCHANGED <<queueVars, mutex, woken, g_running, pcW, segW, resW,
                   pcAudio, curSeg, nAlloc, streamActive, pcMain, freedBy,
                   readAfterFree, histVars, shutdownLog, acquired, held,
                   streamW, failedAt, lateVars, audioVars, textVars,
                   s_keymap, s_fd, s_ctx, typerHeld, initRet, pressArgs,
                   tcps, tbytes, tmem, tpos, events, typedLog, xtestVars>>

\* nothing of typer.c has run yet: the static state has its initialisers
TyperInit ==
    /\ PipelineListening
    /\ AudioIdle
    /\ TextIdle
    /\ TyperIdle

TyperNext ==
    \/ typer_init_call
    \/ typer_init_return
    \/ typer_type_call
    \/ typer_type_char
    \/ typer_type_fault
    \/ typer_type_return
    \/ x11_type_text
    \/ typer_press_call
    \/ typer_press_return
    \/ typer_cleanup_call
    \/ typer_cleanup_return

\* the calls of the typer API, one after another
TyperSpec == TyperInit /\ [][TyperNext]_vars

\* ---- properties of the typer -------------------------------------------------------

\* type_codepoint calls that resolved the codepoint to a key
Resolved == {i \in 1 .. Len(typedLog) : typedLog[i].kl.evdev_keycode >= 0}

\* the level of the layout at which lookup_char found the codepoint
MatchedLevel(kl) ==
    s_keymap.keys[kl.evdev_keycode + EVDEV_OFFSET][kl.layout + 1][kl.level + 1]

\* C18: for every codepoint lookup_char resolves, the key produces exactly
\* the codepoint's keysym at the matched (group, shift-level), and the
\* returned modifier mask is one of the masks that select that shift-level.
C18_RoundTrip ==
    \A i \in Resolved :
        LET kl == typedLog[i].kl
            lv == MatchedLevel(kl)
        IN  /\ lv.syms = <<utf32_to_keysym(typedLog[i].cp)>>
            /\ \E j \in 1 .. Len(lv.masks) : lv.masks[j] = kl.mods

\* the modifiers of the emission in priority order: Shift, Control, Alt,
\* Logo, Level-3/AltGr, with the key each one is pressed by
PriorityNames == <<"Shift", "Control", "Mod1", "Mod4", "Mod5">>
PriorityKeys ==
    <<"KEY_LEFTSHIFT", "KEY_LEFTCTRL", "KEY_LEFTALT", "KEY_LEFTMETA",
      "KEY_RIGHTALT">>

KeyEvents(ev) == SelectSeq(ev, LAMBDA e : e.type = "EV_KEY")

\* the indices into the priority list of the modifiers in the mask, ascending
RECURSIVE RequiredFrom(_, _)
RequiredFrom(mask, i) ==
    IF i > Len(PriorityNames) THEN <<>>
    ELSE (IF PriorityNames[i] \in mask THEN <<i>> ELSE <<>>)
            \o RequiredFrom(mask, i + 1)

\* C19: for each typed character resolved through the layout, the key events
\* are: key-down of each required modifier in the order Shift, Control, Alt,
\* Logo, Level-3/AltGr; key-down, then key-up of the resolved key; key-up of
\* the modifiers in the reverse order of their presses.
C19_EmissionOrder ==
    \A i \in Resolved :
        LET kl  == typedLog[i].kl
            req == RequiredFrom(kl.mods, 1)
            n   == Len(req)
            kev == KeyEvents(typedLog[i].ev)
        IN  /\ Len(kev) = 2 * n + 2
            /\ \A k \in 1 .. n :
                  /\ kev[k] = NamedKey(PriorityKeys[req[k]], 1)
                  /\ kev[2 * n + 3 - k] = NamedKey(PriorityKeys[req[k]], 0)
            /\ kev[n + 1] = CodeKey(kl.evdev_keycode, 1)
            /\ kev[n + 2] = CodeKey(kl.evdev_keycode, 0)

\* a character that needs all five modifiers has been typed
C19_Witness ==
    \E i \in Resolved :
        /\ typedLog[i].kl.mods = {"Shift", "Control", "Mod1", "Mod4", "Mod5"}
        /\ Len(typedLog[i].ev) = 24

\* no keysym, or no level of any key and group produces just that keysym
Unmappable(cp) ==
    /\ cp \notin {9, 10, 13}
    /\ \/ utf32_to_keysym(cp) = 0
       \/ \A kc \in s_keymap.min_kc .. s_keymap.max_kc :
            \A g \in 1 .. Len(s_keymap.keys[kc]) :
              \A l \in 1 .. Len(s_keymap.keys[kc][g]) :
                s_keymap.keys[kc][g][l].syms # <<utf32_to_keysym(cp)>>

RECURSIVE EventsOf(_)
EventsOf(log) ==
    IF log = <<>> THEN <<>> ELSE Head(log).ev \o EventsOf(Tail(log))

\* typer_type has reached the end of its text
TypedAll == typerPc = "loop" /\ Memory(tbytes, tmem)[tpos] = 0

\* C20: a codepoint with no keysym, or with no key producing it in the
\* layout, gets no key event, and typer_type still hands every codepoint of
\* the text, the later ones included, to type_codepoint in order, each
\* mappable one getting its key events.
C20_SkipUnmappable ==
    /\ \A i \in 1 .. Len(typedLog) :
          Unmappable(typedLog[i].cp) <=> typedLog[i].ev = <<>>
    /\ typerPc # "pressed" => events = EventsOf(typedLog)
    /\ TypedAll /\ tbytes = EncodeAll(tcps) =>
          [i \in 1 .. Len(typedLog) |-> typedLog[i].cp]
              = SelectSeq(tcps, LAMBDA u : u >= 0)

\* U+FFFF (no keysym) and U+1F600 (no key) were skipped and 'a' after each
\* of them was typed
C20_Witness ==
    /\ TypedAll
    /\ tcps \in {<<65535, 97>>, <<128512, 97>>}
    /\ typedLog[1].ev = <<>>
    /\ events = typedLog[2].ev
    /\ events # <<>>

\* ---- the two builds compared ---------------------------------------------------------

\* the keysyms the focused application receives for a key pressed with the
\* modifiers mods held, the first group being the active one: the lowest
\* level one of whose masks is mods, the first level when there is none
SymsAt(km, kc, mods) ==
    LET k == km.keys[kc]
        lv == {l \in 1 .. Len(k[1]) :
                 \E i \in 1 .. Len(k[1][l].masks) : k[1][l].masks[i] = mods}
    IN  IF Len(k) = 0 THEN <<>>
        ELSE IF lv = {} THEN k[1][1].syms
        ELSE k[1][CHOOSE l \in lv : \A m \in lv : l <= m].syms

\* the modifier a modifier key of mod_map stands for
ModOfKey(key) ==
    LET i == CHOOSE j \in 1 .. Len(mod_map) : mod_map[j].evdev_key = key
    IN  mod_map[i].name

\* the keysyms typed by a sequence of uinput events; Enter and Tab give
\* Return (0xff0d) and Tab (0xff09)
RECURSIVE TypedByUinput(_, _, _)
TypedByUinput(km, evs, mods) ==
    IF evs = <<>> THEN <<>>
    ELSE LET e == Head(evs)
             rest == Tail(evs)
         IN  IF e.type = "EV_SYN" THEN TypedByUinput(km, rest, mods)
             ELSE IF "code" \in DOMAIN e
             THEN (IF e.value = 1
                   THEN SymsAt(km, e.code + EVDEV_OFFSET, mods) ELSE <<>>)
                  \o TypedByUinput(km, rest, mods)
             ELSE IF e.key = "KEY_ENTER"
             THEN (IF e.value = 1 THEN <<65293>> ELSE <<>>)
                  \o TypedByUinput(km, rest, mods)
             ELSE IF e.key = "KEY_TAB"
             THEN (IF e.value = 1 THEN <<65289>> ELSE <<>>)
                  \o TypedByUinput(km, rest, mods)
             ELSE TypedByUinput(km, rest,
                      IF e.value = 1 THEN mods \cup {ModOfKey(e.key)}
                      ELSE mods \ {ModOfKey(e.key)})

\* the keysyms typed by a sequence of XTest fake key events
RECURSIVE TypedByXTest(_, _, _)
TypedByXTest(km, evs, mods) ==
    IF evs = <<>> THEN <<>>
    ELSE LET e == Head(evs)
             rest == Tail(evs)
         IN  IF "keycode" \in DOMAIN e
             THEN (IF e.is_press THEN SymsAt(km, e.keycode, mods) ELSE <<>>)
                  \o TypedByXTest(km, rest, mods)
             ELSE TypedByXTest(km, rest,
                      IF e.is_press THEN mods \cup {"Shift"}
                      ELSE mods \ {"Shift"})

\* both builds have typed the whole text
BothTyped == TypedAll /\ xPc = "done"

\* C21: for the same input string and the same keyboard layout, type_text of
\* the XTest build and typer_type of the uinput build produce the same
\* typed text.
C21_SameTypedText ==
    BothTyped =>
        TypedByUinput(s_keymap, events, {}) = TypedByXTest(s_keymap, xevents, {})

\* ---- start-up and exit of the process ---------------------------------------------

\* the start-up steps the process cannot do without: the model assets, the
\* virtual input device, the recognition engine, the voice-activity engine
RequiredSteps == {"start", "typer_init", "create_recognizer", "create_vad"}

\* main has returned
Terminated == pcMain \in {"aborted", "exit"}

\* the worker thread was never created and the audio stream never started
NothingStarted ==
    /\ \A w \in Workers : pcW[w] = "unstarted"
    /\ ~streamActive
    /\ nAlloc = 0
    /\ popped = <<>>

\* C22: when a model asset is missing, or the input device, the recognition
\* engine or the voice-activity engine cannot be created, main returns 1
\* ("aborted") before the worker thread or the audio stream is started; and
\* once main is in its loop, the process ends only by main's own return at
\* the end of the teardown, whatever the worker's recognitions, filters and
\* injections do.
C22_FailFastThenSurvive ==
    /\ [](failedAt \in RequiredSteps => pcMain = "aborted" /\ NothingStarted)
    /\ [][/\ (\E w \in Workers : WorkerStep(w)) => pcMain' = pcMain
          /\ (pcMain \notin StartupStates /\ ~Terminated /\ Terminated')
                => (pcMain = "recognizer_destroy" /\ ~g_running
                       /\ pcMain' = "exit")]_vars

\* the creation of the voice-activity engine failed and main has returned 1
C22_Witness ==
    /\ failedAt = "create_vad"
    /\ pcMain = "aborted"
    /\ acquired = <<"typer", "recognizer">>

\* the number of typer_cleanup calls main has made
CleanupCalls ==
    Cardinality({i \in 1 .. Len(shutdownLog) : shutdownLog[i] = "typer_cleanup"})

\* C23: every run in which typer_init succeeded has, when main returns,
\* called typer_cleanup exactly once, so that the device and the layout are
\* destroyed.
C23_TyperDestroyedOnce ==
    (Terminated /\ \E i \in 1 .. Len(acquired) : acquired[i] = "typer")
        => (CleanupCalls = 1 /\ "typer" \notin held)

\* ---- the command table ----------------------------------------------------------------

\* the commands whose phrase ends the worker's text at a word boundary
Qualifying == {k \in 1 .. Len(g_commands) :
                  PhraseMatches(wtext, tlen, g_commands[k].phrase)}

\* no phrase of g_commands ends another one, so no text ends with two of them
OnePhraseQualifies == Cardinality(Qualifying) <= 1

\* ---- the group a key is looked up in ----------------------------------------------

\* the (keycode, level) pairs whose level of the first group produces just
\* the keysym of cp, level counted from 0
PrimaryMatches(cp) ==
    {p \in (s_keymap.min_kc .. s_keymap.max_kc) \X (0 .. 3) :
        /\ Len(s_keymap.keys[p[1]]) >= 1
        /\ p[2] < Len(s_keymap.keys[p[1]][1])
        /\ s_keymap.keys[p[1]][1][p[2] + 1].syms = <<utf32_to_keysym(cp)>>}

\* the first pair in scan order: the lowest keycode, then the lowest level
FirstMatch(ps) ==
    CHOOSE p \in ps : \A q \in ps :
        p[1] < q[1] \/ (p[1] = q[1] /\ p[2] <= q[2])

\* the type_codepoint calls that went through lookup_char with a keysym
LookedUp ==
    {i \in 1 .. Len(typedLog) :
        typedLog[i].cp \notin {9, 10, 13} /\ utf32_to_keysym(typedLog[i].cp) # 0}

\* C25: whenever some key produces the target keysym in group 0, lookup_char
\* returns the first such match in key, then level order; it returns a match
\* of another group only when no key produces the keysym in group 0.
C25_PrimaryGroupFirst ==
    \A i \in LookedUp :
        LET kl == typedLog[i].kl
            ps == PrimaryMatches(typedLog[i].cp)
        IN  /\ ps # {} =>
                 /\ kl.layout = 0
                 /\ kl.evdev_keycode = FirstMatch(ps)[1] - EVDEV_OFFSET
                 /\ kl.level = FirstMatch(ps)[2]
            /\ kl.layout > 0 => ps = {}

\* 'A' is in the second group of key 38 and in the first group of key 40:
\* key 40 was returned; 'a' is in second groups only and one was returned
C25_Witness ==
    /\ s_keymap = KeymapTwoGroups
    /\ tcps = <<65, 97>>
    /\ Len(typedLog) = 2
    /\ typedLog[1].kl.layout = 0
    /\ typedLog[1].kl.evdev_keycode = 40 - EVDEV_OFFSET
    /\ typedLog[2].kl.layout = 1

\* ---- typer_press -----------------------------------------------------------------------

\* the EV_KEY events of the device, without the SYN_REPORTs between them
KeysOnly == SelectSeq(events, LAMBDA e : e.type = "EV_KEY")

\* C26: typer_press(key, with_ctrl) on an initialised device emits exactly
\* Control down (only if with_ctrl is non-zero), key down, key up, Control up
\* (only if with_ctrl is non-zero), whatever the layout, each followed by a
\* SYN_REPORT.
C26_PressSequence ==
    (typerPc = "pressed" /\ s_fd >= 0) =>
        LET key == pressArgs[1]
            with_ctrl == pressArgs[2]
        IN  /\ KeysOnly =
                 IF with_ctrl # 0
                 THEN <<NamedKey("KEY_LEFTCTRL", 1), NamedKey(key, 1),
                        NamedKey(key, 0), NamedKey("KEY_LEFTCTRL", 0)>>
                 ELSE <<NamedKey(key, 1), NamedKey(key, 0)>>
            /\ Len(events) = 2 * Len(KeysOnly)
            /\ \A i \in 1 .. Len(events) :
                 (i % 2 = 0) <=> events[i] = SynReport

\* Ctrl+C has been pressed
C26_Witness ==
    /\ typerPc = "pressed"
    /\ pressArgs = <<"KEY_C", 1>>
    /\ Len(events) = 8

\* ---- the windows fed to the voice-activity engine -----------------------------------

\* the positions of cbTrace with the given operation
TraceAt(op) == {i \in 1 .. Len(cbTrace) : cbTrace[i].op = op}

\* the seg->n of the entries with the given operation, in order
TraceNs(op) ==
    LET sel == SelectSeq(cbTrace, LAMBDA e : e.op = op)
    IN  [i \in 1 .. Len(sel) |-> sel[i].n]

\* the feeds of the callback, in order
Feeds == SelectSeq(cbTrace, LAMBDA e : e.op = "feed")

\* C27: the callback feeds the engine the buffered samples in windows of
\* exactly 512, each window being the 512 oldest samples of the buffer: the
\* first window starts at the sample that was at g_audio_buf[0], every other
\* one right after the window before it, and what is left in the buffer
\* follows the last window and runs up to the newest sample copied in; once
\* the feed loop is over the buffer holds fewer than 512 samples.
C27_WindowsInOrder ==
    /\ g_audio_buf_len < VAD_WINDOW_SIZE
    /\ (bufFirst + g_audio_buf_len) % TagMod = nCopied
    /\ cbPhase = "drain" =>
         /\ cbTrace[1].op = "copy"
         /\ Len(Feeds) =
               (((nCopied - cbTrace[1].at - cbTrace[1].n) % TagMod)
                   + cbTrace[1].n) \div VAD_WINDOW_SIZE
         /\ \A i \in 1 .. Len(Feeds) :
              /\ Feeds[i].n = VAD_WINDOW_SIZE
              /\ Feeds[i].at =
                    (cbTrace[1].at + (i - 1) * VAD_WINDOW_SIZE) % TagMod
         /\ bufFirst = (cbTrace[1].at + Len(Feeds) * VAD_WINDOW_SIZE) % TagMod

\* a frame of 1024 samples came on top of 256 buffered ones: two windows
\* were fed and 256 samples are left
C27_Witness ==
    /\ cbPhase = "drain"
    /\ Len(Feeds) = 2
    /\ cbTrace[1] = Did("copy", 512, 1024)
    /\ g_audio_buf_len = 256
    /\ bufFirst = 512

Recognizing(s) == \E w \in Workers : pcW[w] = "recog" /\ segW[w] = s

\* the number of segments that have left the queue
Removed == Len(popped) + Cardinality(evicted)

\* the segments queue_push has stored so far
Stored == {s \in 1 .. nAlloc : s # curSeg \/ pcAudio = "idle"}

\* C29: while the running flag stays true and recognition calls return, the
\* oldest queued segment is eventually popped or evicted, and a popped one
\* is handed to the recognition engine.  Every segment that left the queue
\* was popped or evicted and the queue holds its segments oldest first, so
\* each queued segment, having at most four older ones before it, is in its
\* turn popped and recognized, or evicted.
C29_QueuedIsServed ==
    /\ \A b \in {0, 1} :
         (count > 0 /\ Removed % 2 = b) ~> (Removed % 2 # b \/ ~g_running)
    /\ \A w \in Workers : (pcW[w] = "popped") ~> (pcW[w] = "recog")
    /\ [](/\ Stored = Queued \cup PoppedSet \cup evicted
          /\ \A i \in 1 .. count, j \in 1 .. count :
               i < j => QueueSeq[i] < QueueSeq[j]
          /\ \A s \in Queued : \A t \in PoppedSet \cup evicted : t < s)

\* the worker was waiting on the condition with a segment in the queue, and
\* has now handed that segment to the recognition engine
C29_Witness ==
    /\ g_running
    /\ Recognizing(1)
    /\ popped = <<1>>
    /\ count > 0

\* ---- the worker after the running flag has fallen ----------------------------------

\* main has called queue_destroy
QueueDestroyed ==
    \E i \in 1 .. Len(shutdownLog) : shutdownLog[i] = "queue_destroy"

\* what was in the queue at queue_destroy was released by it and by nobody
\* else, and was never returned by a queue_pop
LeftoversDestroyed ==
    QueueDestroyed =>
        \A s \in Queued : freedBy[s] = <<"destroy">> /\ s \notin PoppedSet

\* the test of the worker's loop is not passed once the flag is false, and
\* after the queue is destroyed nothing is popped or recognized
NoNewRound ==
    /\ \A w \in Workers :
         (~g_running /\ pcW[w] = "top" /\ pcW'[w] # "top")
             => pcW'[w] = "exited"
    /\ QueueDestroyed => (popped' = popped /\ lateRecog' = lateRecog)

\* C30 as claimed: with the flag false the worker starts at most one further
\* recognition call and injects nothing but that call's output, and what is
\* still queued is released by queue_destroy untranscribed.
C30_Claimed ==
    /\ Cardinality(lateRecog) <= 1
    /\ lateInject \subseteq lateRecog
    /\ LeftoversDestroyed

\* C30: with the flag false the worker handles at most one segment: it
\* injects the output of the recognition call that was in progress when the
\* flag fell, or it starts one further recognition call, for a segment popped
\* in the loop round it had already begun, and injects that call's output;
\* it never passes its loop test again, and what is still queued is released
\* by queue_destroy untranscribed.
C30_AtMostOneMore ==
    /\ [](/\ Cardinality(lateRecog \cup lateInject) <= 1
          /\ LeftoversDestroyed)
    /\ [][NoNewRound]_vars

\* a segment was recognized and injected after the flag fell, and two others
\* were left in the queue and destroyed
C30_Witness ==
    /\ pcMain = "exit"
    /\ Cardinality(lateRecog) = 1
    /\ lateInject = lateRecog
    /\ count = 2

\* ---- typer_type and the end of its text ---------------------------------------------

\* typer_type's p points into the text or at its terminating NUL
WithinText == tpos <= Len(tbytes) + 1

\* C31: for every NUL-terminated byte string, also one that ends in a
\* truncated multi-byte sequence, typer_type's read position never moves
\* past the terminating NUL and the function ends at the terminator.
C31_StopsAtTerminator ==
    /\ typerPc = "loop" => WithinText
    /\ typerPc # "fault"

\* ---- keys held down --------------------------------------------------------------

\* the key an EV_KEY event is about
KeyOf(e) == IF "key" \in DOMAIN e THEN [key |-> e.key] ELSE [code |-> e.code]

\* the modifier keys typer.c presses: those of mod_map (KEY_LEFTCTRL among
\* them, which typer_press uses)
IsModifierKey(k) == \E i \in 1 .. Len(mod_map) : k = [key |-> mod_map[i].evdev_key]

\* the key events evs, met with the keys of st held (the innermost last),
\* press no key that is down, press no second non-modifier key, and
\* release only the key pressed last
RECURSIVE Nested(_, _)
Nested(evs, st) ==
    IF evs = <<>> THEN TRUE
    ELSE LET k == KeyOf(Head(evs))
         IN  IF Head(evs).value = 1
             THEN /\ \A i \in 1 .. Len(st) : st[i] # k
                  /\ IsModifierKey(k)
                       \/ \A i \in 1 .. Len(st) : IsModifierKey(st[i])
                  /\ Nested(Tail(evs), Append(st, k))
             ELSE /\ st # <<>>
                  /\ st[Len(st)] = k
                  /\ Nested(Tail(evs), SubSeq(st, 1, Len(st) - 1))

\* C32: when typer_type or typer_press returns, every key that got a
\* key-down event has got a key-up event after it, so that no key or
\* modifier is left held; the key-down and key-up pairs are properly nested
\* and at most one non-modifier key is down at any time.
C32_NoKeyLeftDown ==
    /\ (TypedAll \/ typerPc = "pressed") =>
          \A i \in 1 .. Len(KeysOnly) :
             KeysOnly[i].value = 1 =>
                \E j \in (i + 1) .. Len(KeysOnly) :
                   /\ KeysOnly[j].value = 0
                   /\ KeyOf(KeysOnly[j]) = KeyOf(KeysOnly[i])
    /\ Nested(KeysOnly, <<>>)

\* typer_type has typed a character that needs five modifiers and is about
\* to return
C32_Witness ==
    /\ TypedAll
    /\ \E i \in 1 .. Len(typedLog) : Cardinality(typedLog[i].kl.mods) = 5
    /\ Len(KeysOnly) >= 12

\* ---- the samples between the callback and the engine --------------------------------

\* C33: no sample is lost or duplicated between the callback and the
\* voice-activity engine: as long as every frame had at most 512 samples,
\* every sample delivered was copied, the windows fed so far are the oldest
\* samples delivered, in order, and the buffer holds exactly the samples
\* that follow them, up to the newest one delivered.
C33_NoSampleLostOrDuplicated ==
    ~oversize =>
        /\ cbPhase # "fault"
        /\ ~lost
        /\ bufFirst = nFed
        /\ (nFed + g_audio_buf_len) % TagMod = nCopied
        /\ \A i \in 1 .. Len(Feeds) :
             Feeds[i].at =
                (nFed + (2 * TagMod) - ((Len(Feeds) - i + 1) * VAD_WINDOW_SIZE))
                   % TagMod

\* frames of 256, 512 and 512 samples came: two windows were fed and 256
\* samples wait in the buffer
C33_Witness ==
    /\ ~oversize
    /\ cbPhase = "drain"
    /\ nCopied = 256
    /\ nFed = 0
    /\ g_audio_buf_len = 256
    /\ Len(Feeds) = 1

\* ---- the capacity of the accumulation buffer ----------------------------------------

InRange(slot) == \E i \in 0 .. (count - 1) : slot = (head + i) % MAX_QUEUE_SIZE

\* a step of queue_pop that takes a segment reads the slot at head, which
\* is in the range
PopReadsInRange ==
    popped' # popped =>
        /\ InRange(head)
        /\ popped' = Append(popped, items[head])

\* what queue_destroy releases is what the slots in the range hold
DestroyReleasesInRange ==
    (pcMain = "queue_destroy" /\ pcMain' # pcMain) =>
        \A s \in SegIds :
            freedBy'[s] # freedBy[s] <=>
                \E slot \in Slots : InRange(slot) /\ items[slot] = s

\* C37: in every reachable state of the ring buffer head and tail are in
\* 0..4, tail = (head + count) mod 5, and the queued segments are exactly the
\* slots head, head+1, ..., head+count-1 (mod 5), in push order; slots
\* outside that range are never read by pop or released by queue_destroy.
C37_RingBuffer ==
    /\ [](/\ head \in Slots
          /\ tail \in Slots
          /\ count \in 0 .. MAX_QUEUE_SIZE
          /\ tail = (head + count) % MAX_QUEUE_SIZE
          /\ \A i \in 1 .. count : QueueSeq[i] \in Stored
          /\ \A i \in 1 .. count, j \in 1 .. count :
               i < j => QueueSeq[i] < QueueSeq[j]
          /\ Queued = Stored \ (PoppedSet \cup evicted))
    /\ [][PopReadsInRange /\ DestroyReleasesInRange]_vars

\* the ring has wrapped around: the queued segments are in the slots 4 and 0,
\* and queue_destroy has released them
C37_Witness ==
    /\ head = 4
    /\ count = 2
    /\ tail = 1
    /\ "queue_destroy" \in {shutdownLog[i] : i \in 1 .. Len(shutdownLog)}
    /\ freedBy[items[4]] = <<"destroy">>
    /\ freedBy[items[0]] = <<"destroy">>

\* ---- typer_init's failures -------------------------------------------------------------

\* s_fd = -1, s_keymap = NULL, s_ctx = NULL
Uninitialised == s_fd < 0 /\ s_keymap = NoKeymap /\ s_ctx = "NULL"

\* C34: if typer_init fails at any step (context creation, keymap
\* compilation, opening the device, device setup or creation), every
\* resource acquired before the failing step is released before it returns
\* -1, and the module's state is the uninitialised one: no device handle, no
\* keymap, no context.
C34_InitFailureUnwinds ==
    (typerPc = "inited" /\ initRet = -1) =>
        /\ Uninitialised
        /\ typerHeld = {}
        /\ \A i \in 1 .. Len(typerOps) :
             typerOps[i] \in Acquiring =>
                \E j \in (i + 1) .. Len(typerOps) :
                   /\ typerOps[j] \notin Acquiring
                   /\ ResourceOfCall(typerOps[j]) = ResourceOfCall(typerOps[i])

\* the device setup failed: the descriptor, the keymap and the context were
\* acquired and released
C34_Witness ==
    /\ typerPc = "inited"
    /\ initRet = -1
    /\ typerOps = <<"xkb_context_new", "xkb_keymap_new_from_names", "open",
                    "close", "xkb_keymap_unref", "xkb_context_unref">>

\* ---- the typer API without a device --------------------------------------------------

\* a call of typer_type or typer_press begins
TypeOrPressCalled ==
    typerPc = "idle" /\ typerPc' \in {"skipped", "loop", "pressed"}

\* C35: in any order of calls to the typer API, while the device is not
\* initialised (before typer_init, after a failed typer_init, after
\* typer_cleanup) typer_type and typer_press emit no event and change no
\* state, and typer_cleanup is idempotent: a second call releases nothing
\* and changes nothing.
C35_InertWithoutDevice ==
    /\ [](/\ s_fd < 0 => Uninitialised /\ events = <<>> /\ typerHeld = {}
          /\ typerPc = "cleaned" => Uninitialised
          /\ (typerPc = "inited" /\ initRet # 0) => Uninitialised)
    /\ [][(TypeOrPressCalled /\ s_fd < 0) =>
             /\ typerPc' # "loop"
             /\ events' = <<>>
             /\ UNCHANGED <<s_fd, s_keymap, s_ctx, typerHeld, typerOps>>]_vars
    /\ [][(typerPc' = "cleaned" /\ typerPc = "idle" /\ Uninitialised) =>
             /\ typerOps' = <<>>
             /\ UNCHANGED <<s_fd, s_keymap, s_ctx, typerHeld>>]_vars

\* typer_press(KEY_C, 1) was called without a device and emitted nothing
C35_Witness ==
    /\ typerPc = "pressed"
    /\ pressArgs = <<"KEY_C", 1>>
    /\ s_fd < 0
    /\ events = <<>>

====
